---- MODULE Spec2Model ----
(***************************************************************************)
(* DualView Connect (src/App.tsx): manual-exchange WebRTC session.         *)
(*                                                                         *)
(* Each peer runs one App component.  The state of a peer is the record    *)
(* peer[p]: the React state cells and refs of App (named as in the source) *)
(* together with the platform objects they point to: the RTCPeerConnection *)
(* in peerConnection.current (field pc), the RTCDataChannels it created or *)
(* received (fields dataChannel, wired) and the asynchronous invocations of *)
(* the signaling handlers that are suspended on an await (field ops).      *)
(*                                                                         *)
(* A handler is an operator from a session record to a session record; an  *)
(* action applies one handler, or one continuation of a suspended handler, *)
(* to one peer.  JavaScript runs a handler to its next await without       *)
(* interleaving, so every action is one such run.                          *)
(***************************************************************************)
EXTENDS Integers, Sequences, FiniteSets, TLC

VARIABLES peer, codec

vars == <<peer, codec>>

Peers == {"A", "B"}

Other(p) == IF p = "A" THEN "B" ELSE "A"

(***************************************************************************)
(* Bounds of the model.                                                    *)
(***************************************************************************)
MaxOps == 2      \* signaling invocations suspended at the same time, per peer
MaxCands == 3    \* candidates one transport emits
MaxChans == 2    \* data channels of a peer that can still fire an event
MaxMsgs == 2     \* chat messages a peer sends, and receives, in one run
MaxStreams == 2  \* capture streams of a peer that are held or live
MaxSdpLen == 2   \* characters in the sdp of a description given to the codec
MaxCut == 2      \* characters lost at the end of a partly copied payload
MaxIngests == 1  \* addRemoteCandidates invocations suspended at the same time

OpIds == 1..MaxOps

(***************************************************************************)
(* Values.                                                                 *)
(***************************************************************************)
\* A session description {type, sdp}; the sdp body names the peer that made it.
Desc(type, owner) == [type |-> type, sdp |-> owner]
NoDesc == Desc("none", "none")

\* The content of a text field.  fmt is the shape of the string: empty, blank
\* (whitespace only), json (JSON.stringify of body), gzb64 (base64 of gzip of
\* that), or junk (neither).
Text(fmt, body) == [fmt |-> fmt, body |-> body]
EmptyText == Text("empty", NoDesc)
BlankText == Text("blank", NoDesc)
JunkText == Text("junk", NoDesc)

\* String.prototype.trim() followed by the truthiness test of the guards.
trimIsEmpty(t) == t.fmt \in {"empty", "blank"}

StatusReady == "Ready to connect."
StatusOfferCreated == "Offer created. Copy and send to peer."
StatusOfferFailed == "Failed to create offer."
StatusPasteOffer == "Error: Paste the offer from the other peer first."
StatusAnswerCreated == "Answer created. Copy and send back to the first peer."
StatusAnswerFailed == "Failed to create answer. Invalid offer data?"
StatusPasteAnswer == "Error: Paste the answer from the other peer first."
StatusAnswerAccepted == "Answer accepted. Connection should establish."
StatusAcceptFailed == "Failed to accept answer. Invalid answer data?"
StatusChatOpened == "Chat connection opened."
StatusChatClosed == "Chat connection closed."
StatusInitializing == "Initializing..."
StatusResetting == "Resetting connection..."
StatusCameraRequest == "Requesting camera access..."
StatusCameraStarted == "Camera started."
StatusCameraFailed == "Failed to start camera."
StatusCameraStopped == "Camera stopped."
StatusScreenRequest == "Requesting screen access..."
StatusScreenStarted == "Screen sharing started."
StatusScreenFailed == "Failed to start screen share."
StatusScreenStopped == "Screen sharing stopped."
StatusPasteCandidates == "Error: Paste remote ICE candidates first."
StatusCandidatesAdded == "Remote ICE candidates added."
StatusCandidatesNotArray == "Error: Candidates must be a JSON array."
StatusCandidatesFailed == "Failed to add candidates. Invalid JSON?"

IceStates == {"new", "checking", "connected", "disconnected", "failed"}

\* `ICE Connection State: ${pc.iceConnectionState}`
StatusIce(st) ==
    CASE st = "new" -> "ICE Connection State: new"
      [] st = "checking" -> "ICE Connection State: checking"
      [] st = "connected" -> "ICE Connection State: connected"
      [] st = "disconnected" -> "ICE Connection State: disconnected"
      [] st = "failed" -> "ICE Connection State: failed"
      [] OTHER -> "ICE Connection State: closed"

(***************************************************************************)
(* Platform objects.                                                       *)
(***************************************************************************)
\* new RTCPeerConnection(servers).  chain is the connection's operations
\* chain (the suspended invocations whose transport call is queued, oldest
\* first); listeners are the icegatheringstatechange listeners, in the order
\* they were added.
NewPc ==
    [signalingState |-> "stable",
     pendingLocal |-> NoDesc, currentLocal |-> NoDesc,
     pendingRemote |-> NoDesc, currentRemote |-> NoDesc,
     iceGatheringState |-> "new",
     iceConnectionState |-> "new",
     senders |-> {},
     remoteCandidates |-> <<>>,
     chain |-> <<>>,
     listeners |-> <<>>]

\* RTCPeerConnection.localDescription / remoteDescription: the pending
\* description if there is one, else the current one.
localDescription(pc) ==
    IF pc.pendingLocal # NoDesc THEN pc.pendingLocal ELSE pc.currentLocal

remoteDescription(pc) ==
    IF pc.pendingRemote # NoDesc THEN pc.pendingRemote ELSE pc.currentRemote

\* The readyState of a data channel, with the event it still owes: connecting,
\* announcing (open, open event not yet fired), open, closing (close() called
\* or the connection closed, close event not yet fired), closed.  A channel
\* can still fire an event unless it is closed.
LiveChanStates == {"connecting", "announcing", "open", "closing"}

\* The channels that dataChannel.current no longer refers to but whose
\* handlers setupDataChannelEvents wired: how many there are in each state.
NoWired == [st \in LiveChanStates |-> 0]

\* A capture stream (one getUserMedia / getDisplayMedia result) and its tracks.
\* id 0 is the null reference.
Stream(id, audio) ==
    [id |-> id, hasAudio |-> audio, audioEnabled |-> audio, videoEnabled |-> TRUE]
NoStream ==
    [id |-> 0, hasAudio |-> FALSE, audioEnabled |-> FALSE, videoEnabled |-> FALSE]

\* An RTCRtpSender: the capture stream and the kind of the track it sends.
Sender(id, kind) == [stream |-> id, kind |-> kind]
NoSender == Sender(0, "none")

\* In a session, emitted counts the candidates its transport has emitted and
\* sinceClear lists the candidate strings emitted since localIceCandidates was
\* last set to [] (neither is read by the program).

\* A suspended invocation of createOffer, createAnswer or acceptAnswer.
\* compress is the useSdpCompression its closure captured, text the pasted
\* field it captured, desc the description it holds, mark the number of
\* candidates the peer's transports had emitted when it was invoked.
Op(kind, phase, compress, text, desc, mark) ==
    [kind |-> kind, phase |-> phase, compress |-> compress, text |-> text,
     desc |-> desc, mark |-> mark]
IdleOp == Op("idle", "idle", FALSE, EmptyText, NoDesc, 0)

\* History of the latest step, for stating what Reset does: NoReset unless the
\* step was a Reset; then the connectionState it was invoked in and whether
\* every item it clears held something.
ResetFrom(conn, full) == [conn |-> conn, full |-> full]
NoReset == ResetFrom("none", FALSE)

\* justEnded is history too: the latest step was the end, from outside, of
\* the capture of the shared screen.

\* A suspended invocation of addRemoteCandidates: the array it parsed, the
\* index of the element whose addIceCandidate it awaits and the elements it
\* has applied so far.  ingested keeps the same of the invocation that ended
\* last, with the way it ended (neither applied nor ingested is read by the
\* program).
Ingest(items, next, applied) == [items |-> items, next |-> next, applied |-> applied]
Ingested(items, applied, outcome) ==
    [items |-> items, applied |-> applied, outcome |-> outcome]
NoIngest == Ingested(<<>>, <<>>, "none")

(***************************************************************************)
(* The App component after its first render and mount effect.              *)
(***************************************************************************)
InitSession ==
    [pc |-> NewPc,
     dataChannel |-> "null",
     wired |-> NoWired,
     ops |-> [i \in OpIds |-> IdleOp],
     emitted |-> 0,
     sinceClear |-> <<>>,
     localCamStream |-> NoStream,
     localScreenStream |-> NoStream,
     remoteCamStream |-> <<>>,
     remoteScreenStream |-> <<>>,
     localCamSender |-> NoSender,
     localMicSender |-> NoSender,
     localScreenSender |-> NoSender,
     offerSdp |-> EmptyText,
     answerSdp |-> EmptyText,
     connectionState |-> "new",
     statusText |-> StatusReady,
     micMuted |-> FALSE,
     camHidden |-> FALSE,
     localIceCandidates |-> <<>>,
     remoteIceCandidates |-> EmptyText,
     isCameraStarting |-> FALSE,
     isScreenStarting |-> FALSE,
     useSdpCompression |-> TRUE,
     dataChannelState |-> "closed",
     messages |-> <<>>,
     chatMessage |-> "",
     wire |-> <<>>,
     received |-> 0,
     liveStreams |-> {},
     uncaught |-> "none",
     ingests |-> <<>>,
     ingested |-> NoIngest,
     justEnded |-> FALSE,
     afterReset |-> NoReset]

(***************************************************************************)
(* React state setters and small helpers.                                  *)
(***************************************************************************)
setStatusText(s, text) == [s EXCEPT !.statusText = text]

HasFreeOp(s) == \E i \in OpIds : s.ops[i].kind = "idle"
FreeOp(s) == CHOOSE i \in OpIds : s.ops[i].kind = "idle" /\ \A j \in 1..(i - 1) : s.ops[j].kind # "idle"

\* The number of channels that can still fire an event.
liveChans(s) ==
    (IF s.dataChannel \in LiveChanStates THEN 1 ELSE 0)
        + s.wired["connecting"] + s.wired["announcing"] + s.wired["open"]
        + s.wired["closing"]
HasFreeChan(s) == liveChans(s) < MaxChans

\* dataChannel.current = dc: the channel referred to until now stays wired.
setDataChannel(s, st) ==
    [s EXCEPT !.dataChannel = st,
              !.wired = IF s.dataChannel \in LiveChanStates
                        THEN [@ EXCEPT ![s.dataChannel] = @ + 1] ELSE @]

\* The status a failed invocation ends with (the catch block of its handler).
FailedStatus(kind) ==
    CASE kind = "offer" -> StatusOfferFailed
      [] kind = "answer" -> StatusAnswerFailed
      [] OTHER -> StatusAcceptFailed

\* The catch block of createOffer / createAnswer / acceptAnswer: invocation i
\* ends with its failure status.
catchError(s, i) ==
    [s EXCEPT !.statusText = FailedStatus(s.ops[i].kind), !.ops[i] = IdleOp]

(***************************************************************************)
(* Codec.                                                                  *)
(***************************************************************************)
\* JSON.stringify(localDesc.toJSON())
stringifySdp(d) == Text("json", d)

\* encodeSdp: gzip of the JSON text, base64 encoded.
encodeSdp(d) == Text("gzb64", d)

\* JSON.parse succeeds on the text.
jsonParses(t) == t.fmt = "json"

\* decodeSdp resolves (by either path) and does not reject.
decodeSdpResolves(t) == t.fmt \in {"json", "gzb64"}

\* decodeSdp suspends on the decompression stream (the fallback path).
decodeSdpSuspends(t) == ~jsonParses(t) /\ t.fmt = "gzb64"

\* The value decodeSdp resolves with.
decodeSdp(t) == t.body

(***************************************************************************)
(* Codec on actual strings (1-74).  A string is the sequence of its code   *)
(* points, a buffer the sequence of its bytes.                             *)
(***************************************************************************)
\* What a call returns or throws: ok is FALSE when it throws.
Returned(value) == [ok |-> TRUE, value |-> value]
Thrown == [ok |-> FALSE, value |-> <<>>]

\* TextEncoder (new Blob([sdpString])): UTF-8 of code points below 2048.
RECURSIVE utf8Encode(_)
utf8Encode(text) ==
    IF text = <<>> THEN <<>>
    ELSE (IF Head(text) < 128 THEN <<Head(text)>>
          ELSE <<192 + (Head(text) \div 64), 128 + (Head(text) % 64)>>)
         \o utf8Encode(Tail(text))

\* Blob.text(): UTF-8 decoding; a malformed byte becomes U+FFFD.
RECURSIVE utf8Decode(_)
utf8Decode(bytes) ==
    IF bytes = <<>> THEN <<>>
    ELSE IF Head(bytes) < 128 THEN <<Head(bytes)>> \o utf8Decode(Tail(bytes))
    ELSE IF /\ Head(bytes) >= 194 /\ Head(bytes) < 224 /\ Len(bytes) >= 2
            /\ bytes[2] >= 128 /\ bytes[2] < 192
    THEN <<(Head(bytes) - 192) * 64 + (bytes[2] - 128)>> \o utf8Decode(Tail(Tail(bytes)))
    ELSE <<65533>> \o utf8Decode(Tail(bytes))

\* The base64 alphabet: A-Z, a-z, 0-9, +, /.
b64Char(i) ==
    IF i < 26 THEN 65 + i
    ELSE IF i < 52 THEN 71 + i
    ELSE IF i < 62 THEN i - 4
    ELSE IF i = 62 THEN 43 ELSE 47

b64Value(c) ==
    IF c >= 65 /\ c <= 90 THEN c - 65
    ELSE IF c >= 97 /\ c <= 122 THEN c - 71
    ELSE IF c >= 48 /\ c <= 57 THEN c + 4
    ELSE IF c = 43 THEN 62
    ELSE IF c = 47 THEN 63 ELSE -1

\* window.btoa on a binary string (one code unit per byte).
RECURSIVE btoa(_)
btoa(bs) ==
    IF bs = <<>> THEN <<>>
    ELSE IF Len(bs) = 1
    THEN <<b64Char(bs[1] \div 4), b64Char((bs[1] % 4) * 16), 61, 61>>
    ELSE IF Len(bs) = 2
    THEN <<b64Char(bs[1] \div 4), b64Char((bs[1] % 4) * 16 + (bs[2] \div 16)),
           b64Char((bs[2] % 16) * 4), 61>>
    ELSE <<b64Char(bs[1] \div 4), b64Char((bs[1] % 4) * 16 + (bs[2] \div 16)),
           b64Char((bs[2] % 16) * 4 + (bs[3] \div 64)), b64Char(bs[3] % 64)>>
         \o btoa(SubSeq(bs, 4, Len(bs)))

\* arrayBufferToBase64 (17-24)
arrayBufferToBase64(buffer) == btoa(buffer)

\* The bytes of a run of base64 characters (padding removed).
RECURSIVE b64Bytes(_)
b64Bytes(cs) ==
    IF Len(cs) < 2 THEN <<>>
    ELSE LET v == [k \in 1..Len(cs) |-> b64Value(cs[k])]
         IN IF Len(cs) = 2 THEN <<v[1] * 4 + (v[2] \div 16)>>
            ELSE IF Len(cs) = 3
            THEN <<v[1] * 4 + (v[2] \div 16), (v[2] % 16) * 16 + (v[3] \div 4)>>
            ELSE <<v[1] * 4 + (v[2] \div 16), (v[2] % 16) * 16 + (v[3] \div 4),
                   (v[3] % 4) * 64 + v[4]>>
                 \o b64Bytes(SubSeq(cs, 5, Len(cs)))

\* window.atob: ASCII whitespace is removed, padding of a whole group is
\* dropped, and a character outside the alphabet or a single leftover
\* character throws.
atob(text) ==
    LET cs == SelectSeq(text, LAMBDA c : c \notin {9, 10, 12, 13, 32})
        n == Len(cs)
        body == IF n > 0 /\ n % 4 = 0 /\ cs[n] = 61
                THEN IF cs[n - 1] = 61 THEN SubSeq(cs, 1, n - 2) ELSE SubSeq(cs, 1, n - 1)
                ELSE cs
    IN IF Len(body) % 4 = 1 \/ \E k \in 1..Len(body) : b64Value(body[k]) < 0
       THEN Thrown
       ELSE Returned(b64Bytes(body))

\* base64ToArrayBuffer (27-35)
base64ToArrayBuffer(base64) == atob(base64)

\* The sum of the bytes, modulo 256.
RECURSIVE byteSum(_)
byteSum(bs) == IF bs = <<>> THEN 0 ELSE (Head(bs) + byteSum(Tail(bs))) % 256

\* CompressionStream('gzip') and DecompressionStream('gzip'), reduced to
\* what the codec relies on: the output starts with the gzip magic bytes and
\* the method byte, carries the data and ends with a check value;
\* decompression throws unless all of it is in place.
gzip(bs) == <<31, 139, 8, Len(bs)>> \o bs \o <<byteSum(bs)>>

gunzip(bs) ==
    IF /\ Len(bs) >= 5
       /\ SubSeq(bs, 1, 3) = <<31, 139, 8>>
       /\ bs[4] = Len(bs) - 5
       /\ bs[Len(bs)] = byteSum(SubSeq(bs, 5, Len(bs) - 1))
    THEN Returned(SubSeq(bs, 5, Len(bs) - 1))
    ELSE Thrown

\* JavaScript values as JSON sees them.  An object keeps its members in
\* insertion order.
JsNull == [kind |-> "null", text |-> <<>>, members |-> <<>>]
JsBool(word) == [kind |-> "boolean", text |-> word, members |-> <<>>]
JsNumber(digits) == [kind |-> "number", text |-> digits, members |-> <<>>]
JsString(text) == [kind |-> "string", text |-> text, members |-> <<>>]
JsObject(members) == [kind |-> "object", text |-> <<>>, members |-> members]
Member(key, value) == [key |-> key, value |-> value]

\* "type", "sdp", "offer" and "answer" as strings.
KeyType == <<116, 121, 112, 101>>
KeySdp == <<115, 100, 112>>
WordOffer == <<111, 102, 102, 101, 114>>
WordAnswer == <<97, 110, 115, 119, 101, 114>>

\* An RTCSessionDescriptionInit {type, sdp}.
SessionDescription(type, sdp) ==
    JsObject(<<Member(KeyType, JsString(type)), Member(KeySdp, JsString(sdp))>>)

\* JSON.stringify of a string: quotes around it, with the quote, the
\* backslash and the control characters escaped.
RECURSIVE jsonEscape(_)
jsonEscape(text) ==
    IF text = <<>> THEN <<>>
    ELSE (CASE Head(text) = 34 -> <<92, 34>>
            [] Head(text) = 92 -> <<92, 92>>
            [] Head(text) = 10 -> <<92, 110>>
            [] Head(text) = 13 -> <<92, 114>>
            [] Head(text) = 9 -> <<92, 116>>
            [] OTHER -> <<Head(text)>>)
         \o jsonEscape(Tail(text))

jsonQuote_raw(text) == <<34>> \o text \o <<34>>

jsonQuote(text) == <<34>> \o jsonEscape(text) \o <<34>>

\* JSON.stringify (44)
RECURSIVE jsonStringify(_)
RECURSIVE jsonMembers(_)
jsonMembers(members) ==
    IF members = <<>> THEN <<>>
    ELSE jsonQuote(Head(members).key) \o <<58>> \o jsonStringify(Head(members).value)
         \o (IF Len(members) > 1 THEN <<44>> ELSE <<>>)
         \o jsonMembers(Tail(members))

jsonStringify(value) ==
    CASE value.kind = "object" -> <<123>> \o jsonMembers(value.members) \o <<125>>
      [] value.kind = "string" -> jsonQuote(value.text)
      [] value.kind = "null" -> <<110, 117, 108, 108>>
      [] OTHER -> value.text

\* A parse result: the value and the position after it, or a syntax error.
Parsed(value, next) == [ok |-> TRUE, value |-> value, next |-> next]
SyntaxError == [ok |-> FALSE, value |-> JsNull, next |-> 0]

\* The string literal whose opening quote is before position i.
RECURSIVE scanString(_, _, _)
scanString(text, i, acc) ==
    IF i > Len(text) \/ text[i] < 32 THEN SyntaxError
    ELSE IF text[i] = 34 THEN Parsed(acc, i + 1)
    ELSE IF text[i] = 92
    THEN IF i + 1 > Len(text) THEN SyntaxError
         ELSE CASE text[i + 1] \in {34, 92, 47} -> scanString(text, i + 2, Append(acc, text[i + 1]))
                [] text[i + 1] = 110 -> scanString(text, i + 2, Append(acc, 10))
                [] text[i + 1] = 114 -> scanString(text, i + 2, Append(acc, 13))
                [] text[i + 1] = 116 -> scanString(text, i + 2, Append(acc, 9))
                [] OTHER -> SyntaxError
    ELSE scanString(text, i + 1, Append(acc, text[i]))

\* The end of the run of digits that starts at position i.
RECURSIVE scanDigits(_, _)
scanDigits(text, i) ==
    IF i <= Len(text) /\ text[i] >= 48 /\ text[i] <= 57 THEN scanDigits(text, i + 1) ELSE i

startsWith(text, i, word) ==
    /\ i + Len(word) - 1 <= Len(text)
    /\ SubSeq(text, i, i + Len(word) - 1) = word

\* The JSON value at position i: a literal, an unsigned integer, a string
\* or an object (the grammar without arrays, fractions, exponents, \u
\* escapes and inner white space).
RECURSIVE parseValue(_, _)
RECURSIVE parseMembers(_, _, _)
parseMembers(text, i, acc) ==
    IF i > Len(text) \/ text[i] # 34 THEN SyntaxError
    ELSE LET key == scanString(text, i + 1, <<>>)
         IN IF ~key.ok \/ key.next > Len(text) \/ text[key.next] # 58 THEN SyntaxError
            ELSE LET val == parseValue(text, key.next + 1)
                     all == Append(acc, Member(key.value, val.value))
                 IN IF ~val.ok \/ val.next > Len(text) THEN SyntaxError
                    ELSE IF text[val.next] = 125 THEN Parsed(JsObject(all), val.next + 1)
                    ELSE IF text[val.next] = 44 THEN parseMembers(text, val.next + 1, all)
                    ELSE SyntaxError

parseValue(text, i) ==
    IF i > Len(text) THEN SyntaxError
    ELSE IF text[i] = 34
    THEN LET str == scanString(text, i + 1, <<>>)
         IN IF str.ok THEN Parsed(JsString(str.value), str.next) ELSE SyntaxError
    ELSE IF text[i] = 123
    THEN IF i + 1 <= Len(text) /\ text[i + 1] = 125 THEN Parsed(JsObject(<<>>), i + 2)
         ELSE parseMembers(text, i + 1, <<>>)
    ELSE IF text[i] >= 48 /\ text[i] <= 57
    THEN IF text[i] = 48 /\ scanDigits(text, i) > i + 1 THEN SyntaxError
         ELSE Parsed(JsNumber(SubSeq(text, i, scanDigits(text, i) - 1)), scanDigits(text, i))
    ELSE IF startsWith(text, i, <<110, 117, 108, 108>>) THEN Parsed(JsNull, i + 4)
    ELSE IF startsWith(text, i, <<116, 114, 117, 101>>)
    THEN Parsed(JsBool(<<116, 114, 117, 101>>), i + 4)
    ELSE IF startsWith(text, i, <<102, 97, 108, 115, 101>>)
    THEN Parsed(JsBool(<<102, 97, 108, 115, 101>>), i + 5)
    ELSE SyntaxError

\* White space around a JSON text is ignored.
RECURSIVE trimSpace(_)
trimSpace(text) ==
    IF text # <<>> /\ Head(text) \in {9, 10, 13, 32} THEN trimSpace(Tail(text))
    ELSE IF text # <<>> /\ text[Len(text)] \in {9, 10, 13, 32}
    THEN trimSpace(SubSeq(text, 1, Len(text) - 1))
    ELSE text

\* JSON.parse (59, 68): the whole text has to be one value.
jsonParse(text) ==
    LET body == trimSpace(text)
        res == parseValue(body, 1)
    IN IF res.ok /\ res.next = Len(body) + 1 THEN Returned(res.value) ELSE Thrown

\* encodeSdp (43-49) on strings
encodeSdpString(sdp) == arrayBufferToBase64(gzip(utf8Encode(jsonStringify(sdp))))

\* What decodeSdp settles with: the value it resolves to and the path that
\* produced it, or the one error of line 71.
Decoded(value, path) == [ok |-> TRUE, value |-> value, path |-> path]
InvalidSdpFormat == [ok |-> FALSE, value |-> JsNull, path |-> "error"]

\* decodeSdp (56-74) on strings
decodeSdpString(data) ==
    LET direct == jsonParse(data)
        buffer == base64ToArrayBuffer(data)
        blob == gunzip(buffer.value)
        inner == jsonParse(utf8Decode(blob.value))
    IN IF direct.ok THEN Decoded(direct.value, "direct")
       ELSE IF buffer.ok /\ blob.ok /\ inner.ok THEN Decoded(inner.value, "fallback")
       ELSE InvalidSdpFormat

(***************************************************************************)
(* createOffer (src/App.tsx 344-385).                                      *)
(***************************************************************************)
\* clearForOffer: setLocalIceCandidates([]) of createOffer.
clearForOffer_keeps(s) == s

clearForOffer(s) == [s EXCEPT !.localIceCandidates = <<>>]

\* The run from the click to the first await (pc.createOffer()).
createOffer(s) ==
    LET i == FreeOp(s)
        s1 == [setDataChannel(s, "connecting") EXCEPT !.dataChannelState = "connecting"]
        s2 == clearForOffer(s1)
    IN [s2 EXCEPT !.ops[i] = Op("offer", "createOffer", s.useSdpCompression,
                                EmptyText, NoDesc, s.emitted),
                  !.pc.chain = Append(@, i),
                  !.sinceClear = <<>>]

\* The end of createOffer / createAnswer: setOfferSdp / setAnswerSdp of the
\* exported payload and the final status.
writePayload(s, i, payload, write) ==
    LET s1 == IF ~write THEN s
              ELSE IF s.ops[i].kind = "offer"
                   THEN [s EXCEPT !.offerSdp = payload]
                   ELSE [s EXCEPT !.answerSdp = payload]
    IN [s1 EXCEPT !.statusText = IF s.ops[i].kind = "offer"
                                 THEN StatusOfferCreated ELSE StatusAnswerCreated,
                  !.ops[i] = IdleOp]

\* The continuation of createOffer / createAnswer after the gathering wait:
\* read localDescription, then export it or suspend on encodeSdp.
afterGathering(s, i) ==
    LET localDesc == localDescription(s.pc)
    IN IF localDesc # NoDesc /\ s.ops[i].compress
       THEN [s EXCEPT !.ops[i].phase = "encode", !.ops[i].desc = localDesc]
       ELSE writePayload(s, i, stringifySdp(localDesc), localDesc # NoDesc)

\* The continuation after `await encodeSdp(...)`.
afterEncode(s, i) == writePayload(s, i, encodeSdp(s.ops[i].desc), TRUE)

\* The gathering wait (the Promise executor of lines 357-369 / 399-411): go on
\* at once when gathering is complete, else add a listener and stay suspended.
awaitGathering_noWait(s, i) == afterGathering(s, i)

awaitGathering(s, i) ==
    IF s.pc.iceGatheringState = "complete"
    THEN afterGathering(s, i)
    ELSE [s EXCEPT !.ops[i].phase = "gather", !.pc.listeners = Append(@, i)]

(***************************************************************************)
(* createAnswer (387-427) and acceptAnswer (429-442).                      *)
(***************************************************************************)
\* clearForAnswer: setLocalIceCandidates([]) of createAnswer.
clearForAnswer(s) == [s EXCEPT !.localIceCandidates = <<>>]

\* pc.setRemoteDescription(new RTCSessionDescription(d)) called by invocation i.
callSetRemote(s, i, d) ==
    [s EXCEPT !.ops[i].phase = "setRemote", !.ops[i].desc = d,
              !.ops[i].text = EmptyText, !.pc.chain = Append(@, i)]

\* `await decodeSdp(text)` of invocation i and what follows it up to the next
\* suspension.
startDecode(s, i, kind, text) ==
    LET s1 == [s EXCEPT !.ops[i] = Op(kind, "decode", s.useSdpCompression, text,
                                      NoDesc, s.emitted)]
    IN IF decodeSdpSuspends(text) THEN s1
       ELSE IF decodeSdpResolves(text) THEN callSetRemote(s1, i, decodeSdp(text))
       ELSE catchError(s1, i)

\* The continuation after a suspended decodeSdp resolved.
afterDecode(s, i) == callSetRemote(s, i, decodeSdp(s.ops[i].text))

createAnswer_clearsFirst(s) ==
    IF trimIsEmpty(s.offerSdp)
    THEN setStatusText(clearForAnswer(s), StatusPasteOffer)
    ELSE startDecode([clearForAnswer(s) EXCEPT !.sinceClear = <<>>],
                     FreeOp(s), "answer", s.offerSdp)

createAnswer(s) ==
    IF trimIsEmpty(s.offerSdp)
    THEN setStatusText(s, StatusPasteOffer)
    ELSE startDecode([clearForAnswer(s) EXCEPT !.sinceClear = <<>>],
                     FreeOp(s), "answer", s.offerSdp)

acceptAnswer(s) ==
    IF trimIsEmpty(s.answerSdp)
    THEN setStatusText(s, StatusPasteAnswer)
    ELSE startDecode(s, FreeOp(s), "accept", s.answerSdp)

(***************************************************************************)
(* addRemoteCandidates (444-465).                                          *)
(***************************************************************************)
\* The value JSON.parse returns for a pasted candidate list: an array of
\* elements, or something that is not an array.  An element is null, the
\* empty string, a candidate (c1, c2) or an object RTCIceCandidate rejects.
JsonArray(items) == [kind |-> "array", items |-> items]
JsonNotArray == [kind |-> "object", items |-> <<>>]

\* Array.isArray(candidates)
isArray(value) == value.kind = "array"

\* if (candidate): the element is skipped.
isFalsy_nullOnly(x) == x = "null"

isFalsy(x) == x \in {"null", "empty"}

\* new RTCIceCandidate(candidate) returns and does not throw.
constructs(x) == x # "bad"

\* addIceCandidate is rejected on a transport without remote description.
canAddIceCandidate(pc) == remoteDescription(pc) # NoDesc

\* The index of the first element from k on that is not skipped.
RECURSIVE firstTruthy(_, _)
firstTruthy(items, k) ==
    IF k > Len(items) \/ ~isFalsy(items[k]) THEN k ELSE firstTruthy(items, k + 1)

\* The loop of lines 452-456 from element k on, up to its next await or to
\* the end of the handler.
ingestFrom(s, items, k, applied) ==
    LET j == firstTruthy(items, k)
    IN IF j > Len(items)
       THEN [s EXCEPT !.statusText = StatusCandidatesAdded,
                      !.ingested = Ingested(items, applied, "added")]
       ELSE IF ~constructs(items[j])
       THEN [s EXCEPT !.statusText = StatusCandidatesFailed,
                      !.ingested = Ingested(items, applied, "failed")]
       ELSE [s EXCEPT !.ingests = Append(@, Ingest(items, j, applied))]

addRemoteCandidates(s) ==
    IF trimIsEmpty(s.remoteIceCandidates)
    THEN setStatusText(s, StatusPasteCandidates)
    ELSE IF ~jsonParses(s.remoteIceCandidates)
    THEN setStatusText(s, StatusCandidatesFailed)
    ELSE IF ~isArray(s.remoteIceCandidates.body)
    THEN setStatusText(s, StatusCandidatesNotArray)
    ELSE ingestFrom(s, s.remoteIceCandidates.body.items, 1, <<>>)

\* The addIceCandidate that invocation k awaits settles.
addIceSettled(s, k, ok) ==
    LET inv == s.ingests[k]
        s0 == [s EXCEPT !.ingests = SubSeq(@, 1, k - 1) \o SubSeq(@, k + 1, Len(@))]
    IN IF ok /\ canAddIceCandidate(s.pc)
       THEN ingestFrom([s0 EXCEPT !.pc.remoteCandidates = Append(@, inv.items[inv.next])],
                       inv.items, inv.next + 1, Append(inv.applied, inv.items[inv.next]))
       ELSE [s0 EXCEPT !.statusText = StatusCandidatesFailed,
                       !.ingested = Ingested(inv.items, inv.applied, "failed")]

(***************************************************************************)
(* The transport (RTCPeerConnection), as the handlers observe it.          *)
(***************************************************************************)
\* createOffer() is accepted in these signaling states, createAnswer() in
\* have-remote-offer only.
canCreateOffer(pc) == pc.signalingState \in {"stable", "have-local-offer"}
canCreateAnswer(pc) == pc.signalingState = "have-remote-offer"

canSetLocal(pc, d) ==
    \/ d.type = "offer" /\ pc.signalingState \in {"stable", "have-local-offer"}
    \/ d.type = "answer" /\ pc.signalingState = "have-remote-offer"

\* A remote offer in have-local-offer rolls the local offer back first.
canSetRemote(pc, d) ==
    \/ d.type = "offer"
    \/ d.type = "answer" /\ pc.signalingState = "have-local-offer"

\* The effect of a successful setLocalDescription(d); gathering starts with
\* the first local description.
pcSetLocal(pc, d) ==
    LET g == IF pc.iceGatheringState = "new" THEN "gathering" ELSE pc.iceGatheringState
    IN IF d.type = "offer"
       THEN [pc EXCEPT !.signalingState = "have-local-offer", !.pendingLocal = d,
                       !.iceGatheringState = g]
       ELSE [pc EXCEPT !.signalingState = "stable", !.currentLocal = d,
                       !.currentRemote = pc.pendingRemote,
                       !.pendingLocal = NoDesc, !.pendingRemote = NoDesc,
                       !.iceGatheringState = g]

\* The effect of a successful setRemoteDescription(d).
pcSetRemote(pc, d) ==
    IF d.type = "offer"
    THEN [pc EXCEPT !.signalingState = "have-remote-offer", !.pendingRemote = d,
                    !.pendingLocal = NoDesc]
    ELSE [pc EXCEPT !.signalingState = "stable", !.currentRemote = d,
                    !.currentLocal = pc.pendingLocal,
                    !.pendingLocal = NoDesc, !.pendingRemote = NoDesc]

\* The transport settles the call at the head of the operations chain and the
\* invocation that awaits it runs to its next suspension.  ok = FALSE is a
\* rejection by the transport for a reason of its own.
resolveHead(s, p, ok) ==
    LET i == Head(s.pc.chain)
        op == s.ops[i]
        s0 == [s EXCEPT !.pc.chain = Tail(@)]
    IN CASE op.phase = "createOffer" ->
              IF ok /\ canCreateOffer(s.pc)
              THEN [s0 EXCEPT !.ops[i].phase = "setLocal",
                              !.ops[i].desc = Desc("offer", p),
                              !.pc.chain = Append(@, i)]
              ELSE catchError(s0, i)
         [] op.phase = "createAnswer" ->
              IF ok /\ canCreateAnswer(s.pc)
              THEN [s0 EXCEPT !.ops[i].phase = "setLocal",
                              !.ops[i].desc = Desc("answer", p),
                              !.pc.chain = Append(@, i)]
              ELSE catchError(s0, i)
         [] op.phase = "setLocal" ->
              IF ok /\ canSetLocal(s.pc, op.desc)
              THEN awaitGathering([s0 EXCEPT !.pc = pcSetLocal(@, op.desc)], i)
              ELSE catchError(s0, i)
         [] op.phase = "setRemote" ->
              IF ok /\ canSetRemote(s.pc, op.desc)
              THEN LET s1 == [s0 EXCEPT !.pc = pcSetRemote(@, op.desc)]
                   IN IF op.kind = "answer"
                      THEN [s1 EXCEPT !.ops[i].phase = "createAnswer",
                                      !.ops[i].desc = NoDesc,
                                      !.pc.chain = Append(@, i)]
                      ELSE [s1 EXCEPT !.statusText = StatusAnswerAccepted,
                                      !.ops[i] = IdleOp]
              ELSE catchError(s0, i)
         [] OTHER -> s

(***************************************************************************)
(* Transport event handlers installed by initializePeerConnection.         *)
(***************************************************************************)
\* An RTCIceCandidate object: id is its identity (the emission number),
\* candidate its candidate string.  NoCand is the null of the last event.
Cand(id, c) == [id |-> id, candidate |-> c]
NoCand == Cand(0, "null")
CandVals == {"c1", "c2"}

\* JSON.stringify(localIceCandidates) (604-606): each RTCIceCandidate is
\* serialised by its toJSON, in the order of the array.
exportCandidates(buf) == [k \in DOMAIN buf |-> buf[k].candidate]

\* pc.onicecandidate (189-193)
onicecandidate_dedupes(s, cand) ==
    IF cand # NoCand
          /\ \A k \in DOMAIN s.localIceCandidates :
                 s.localIceCandidates[k].candidate # cand.candidate
    THEN [s EXCEPT !.localIceCandidates = Append(@, cand)]
    ELSE s

onicecandidate(s, cand) ==
    IF cand # NoCand
    THEN [s EXCEPT !.localIceCandidates = Append(@, cand)]
    ELSE s

\* pc.oniceconnectionstatechange (184-187)
oniceconnectionstatechange_statusOnly(s) ==
    [s EXCEPT !.statusText = StatusIce(s.pc.iceConnectionState)]

oniceconnectionstatechange(s) ==
    [s EXCEPT !.connectionState = s.pc.iceConnectionState,
              !.statusText = StatusIce(s.pc.iceConnectionState)]

\* The transport emits candidate c: the event handler runs.
emitCandidate(s, c) ==
    onicecandidate([s EXCEPT !.emitted = @ + 1, !.sinceClear = Append(@, c)],
                   Cand(s.emitted + 1, c))

\* checkState of each gathering listener, in the order the listeners were
\* added, each followed by the continuation it resolves.
RECURSIVE fireGatheringListeners(_, _)
fireGatheringListeners(s, ls) ==
    IF ls = <<>> THEN s
    ELSE fireGatheringListeners(afterGathering(s, Head(ls)), Tail(ls))

\* Gathering completes: icegatheringstatechange with state complete, then the
\* icecandidate event with a null candidate.
gatheringComplete(s) ==
    LET s1 == [s EXCEPT !.pc.iceGatheringState = "complete", !.pc.listeners = <<>>]
        s2 == fireGatheringListeners(s1, s.pc.listeners)
    IN onicecandidate(s2, NoCand)

\* The transitions of RTCPeerConnection.iceConnectionState.
IceNext(st) ==
    CASE st = "new" -> {"checking"}
      [] st = "checking" -> {"connected", "failed"}
      [] st = "connected" -> {"disconnected"}
      [] st = "disconnected" -> {"connected", "failed"}
      [] OTHER -> {}

iceStateChange(s, st) ==
    oniceconnectionstatechange([s EXCEPT !.pc.iceConnectionState = st])

(***************************************************************************)
(* Side channel (166-178, 196-199).                                        *)
(***************************************************************************)
Msg(text, sender) == [text |-> text, sender |-> sender]

\* dc.onopen / dc.onclose / dc.onmessage of setupDataChannelEvents
dcOnopen(s) ==
    [s EXCEPT !.dataChannelState = "open", !.statusText = StatusChatOpened]

dcOnclose(s) ==
    [s EXCEPT !.dataChannelState = "closed", !.statusText = StatusChatClosed]

dcOnmessage_prepends(s, data) ==
    [s EXCEPT !.messages = <<Msg(data, "remote")>> \o @]

dcOnmessage(s, data) ==
    [s EXCEPT !.messages = Append(@, Msg(data, "remote"))]

\* pc.ondatachannel: the channel the remote peer created arrives; its
\* readyState is open and its open event follows.
ondatachannel(s) == setDataChannel(s, "announcing")

\* Channel c, "current" (the one dataChannel.current refers to) or a wired
\* one named by its state, goes to state st.
chanState(s, c) == IF c = "current" THEN s.dataChannel ELSE c
chanExists(s, c) == IF c = "current" THEN s.dataChannel \in LiveChanStates ELSE s.wired[c] > 0
moveChan(s, c, st) ==
    IF c = "current" THEN [s EXCEPT !.dataChannel = st]
    ELSE IF st = "closed" THEN [s EXCEPT !.wired[c] = @ - 1]
    ELSE [s EXCEPT !.wired[c] = @ - 1, !.wired[st] = @ + 1]

\* The open event of channel c.
chanOpen(s, c) == dcOnopen(moveChan(s, c, "open"))

\* The close event of channel c.
chanClose(s, c) == dcOnclose(moveChan(s, c, "closed"))

\* A message arrives on an open channel.
chanMessage(s, data) == dcOnmessage([s EXCEPT !.received = @ + 1], data)

\* dataChannel.current.readyState is open
chanIsOpen(s) == s.dataChannel \in {"announcing", "open"}

\* String.prototype.trim() of the chat input.
trimChat(t) ==
    CASE t = " " -> ""
      [] t = " hi " -> "hi"
      [] OTHER -> t

ChatTexts == {"", " ", "hi", " hi ", "yo"}

\* sendMessage (495-503).  dc.send throws InvalidStateError on a channel
\* whose readyState is not open; nothing catches it and the handler ends
\* there.
sendMessage(s) ==
    LET messageToSend == trimChat(s.chatMessage)
    IN IF messageToSend # "" /\ s.dataChannel # "null" /\ s.dataChannelState = "open"
       THEN IF chanIsOpen(s)
            THEN [s EXCEPT !.wire = Append(@, messageToSend),
                           !.messages = Append(@, Msg(messageToSend, "local")),
                           !.chatMessage = ""]
            ELSE [s EXCEPT !.uncaught = "InvalidStateError"]
       ELSE s

(***************************************************************************)
(* Track Router: pc.ontrack (201-223).                                     *)
(***************************************************************************)
Track(id, kind) == [id |-> id, kind |-> kind]

\* event.streams[0]: present is FALSE when the event carries no stream;
\* audio / video say whether getAudioTracks() / getVideoTracks() are non-empty.
Snapshot(present, audio, video) == [present |-> present, audio |-> audio, video |-> video]

\* MediaStream.getTrackById(id) finds a track
hasTrack(bucket, id) == \E k \in DOMAIN bucket : bucket[k].id = id

\* The updater of setRemoteCamStream / setRemoteScreenStream.
addToBucket_always(bucket, track) == Append(bucket, track)

addToBucket(bucket, track) ==
    IF ~hasTrack(bucket, track.id) THEN Append(bucket, track) ELSE bucket

\* The condition of line 206.
routesToCamera_audioOnly(track, stream) == track.kind = "audio"

routesToCamera(track, stream) ==
    track.kind = "audio" \/ (stream.audio /\ stream.video)

ontrack(s, track, stream) ==
    IF ~stream.present THEN s
    ELSE IF routesToCamera(track, stream)
    THEN [s EXCEPT !.remoteCamStream = addToBucket(@, track)]
    ELSE IF track.kind = "video"
    THEN [s EXCEPT !.remoteScreenStream = addToBucket(@, track)]
    ELSE s

(***************************************************************************)
(* Media Control (240-340).                                                *)
(***************************************************************************)
\* peerConnection.current.removeTrack(sender), when the reference is set
removeTrack(pc, sender) ==
    IF sender # NoSender THEN [pc EXCEPT !.senders = @ \ {sender}] ELSE pc

\* removeTrack throws InvalidAccessError for a sender that the connection
\* does not hold.
removeTrackThrows(pc, sender) == sender # NoSender /\ sender \notin pc.senders

\* peerConnection.current.addTrack(track, stream)
addTrack(pc, sender) == [pc EXCEPT !.senders = @ \cup {sender}]

\* The identities a new capture stream can get: those no reference, sender or
\* live track still uses.
usedStreams(s) ==
    s.liveStreams \cup {s.localCamStream.id, s.localScreenStream.id}
        \cup {x.stream : x \in s.pc.senders}
HasFreeStream(s) == \E id \in 1..MaxStreams : id \notin usedStreams(s)
FreeStream(s) ==
    CHOOSE id \in 1..MaxStreams :
        id \notin usedStreams(s) /\ \A j \in 1..(id - 1) : j \in usedStreams(s)

\* startCamera up to `await getUserMedia`.
startCamera(s) ==
    IF s.isCameraStarting THEN s
    ELSE [s EXCEPT !.isCameraStarting = TRUE, !.statusText = StatusCameraRequest]

\* The continuation of startCamera: getUserMedia resolved (ok) or rejected.
\* A removeTrack that throws is caught by the catch block (258-261).
cameraAcquired(s, ok) ==
    IF ok
    THEN LET id == FreeStream(s)
             pc1 == removeTrack(removeTrack(s.pc, s.localCamSender), s.localMicSender)
             pc2 == addTrack(addTrack(pc1, Sender(id, "video")), Sender(id, "audio"))
         IN IF \/ removeTrackThrows(s.pc, s.localCamSender)
               \/ removeTrackThrows(s.pc, s.localMicSender)
            THEN [s EXCEPT !.liveStreams = @ \cup {id},
                           !.localCamStream = Stream(id, TRUE),
                           !.pc = IF removeTrackThrows(s.pc, s.localCamSender)
                                  THEN @ ELSE removeTrack(@, s.localCamSender),
                           !.statusText = StatusCameraFailed,
                           !.isCameraStarting = FALSE]
            ELSE [s EXCEPT !.liveStreams = @ \cup {id},
                           !.localCamStream = Stream(id, TRUE),
                           !.pc = pc2,
                           !.localCamSender = Sender(id, "video"),
                           !.localMicSender = Sender(id, "audio"),
                           !.statusText = StatusCameraStarted,
                           !.isCameraStarting = FALSE]
    ELSE [s EXCEPT !.statusText = StatusCameraFailed, !.isCameraStarting = FALSE]

\* stopCamera (266-282) ends at a removeTrack that throws.
stopCameraThrows(s) ==
    \/ removeTrackThrows(s.pc, s.localCamSender)
    \/ removeTrackThrows(s.pc, s.localMicSender)

\* stopCamera that leaves the microphone sender on the connection.
stopCamera_keepsMic(s) ==
    [s EXCEPT !.liveStreams = @ \ {s.localCamStream.id},
              !.localCamStream = NoStream,
              !.pc = removeTrack(@, s.localCamSender),
              !.localCamSender = NoSender,
              !.localMicSender = NoSender,
              !.micMuted = FALSE,
              !.camHidden = FALSE,
              !.statusText = StatusCameraStopped]

\* stopCamera that leaves the mute and hide flags as they are.
stopCamera_keepsFlags(s) ==
    [s EXCEPT !.liveStreams = @ \ {s.localCamStream.id},
              !.localCamStream = NoStream,
              !.pc = removeTrack(removeTrack(@, s.localCamSender), s.localMicSender),
              !.localCamSender = NoSender,
              !.localMicSender = NoSender,
              !.statusText = StatusCameraStopped]

stopCamera(s) ==
    LET s1 == [s EXCEPT !.liveStreams = @ \ {s.localCamStream.id},
                        !.localCamStream = NoStream]
    IN IF removeTrackThrows(s.pc, s.localCamSender)
       THEN [s1 EXCEPT !.uncaught = "InvalidAccessError"]
       ELSE IF removeTrackThrows(s.pc, s.localMicSender)
       THEN [s1 EXCEPT !.pc = removeTrack(@, s.localCamSender),
                       !.localCamSender = NoSender,
                       !.uncaught = "InvalidAccessError"]
       ELSE [s1 EXCEPT !.pc = removeTrack(removeTrack(@, s.localCamSender),
                                          s.localMicSender),
                       !.localCamSender = NoSender,
                       !.localMicSender = NoSender,
                       !.micMuted = FALSE,
                       !.camHidden = FALSE,
                       !.statusText = StatusCameraStopped]

\* toggleMic that takes the microphone sender off the transport.
toggleMic_dropsSender(s) ==
    IF s.localCamStream = NoStream THEN s
    ELSE [s EXCEPT !.localCamStream.audioEnabled = ~@, !.micMuted = ~@,
                   !.pc = removeTrack(@, s.localMicSender)]

toggleMic(s) ==
    IF s.localCamStream = NoStream THEN s
    ELSE [s EXCEPT !.localCamStream.audioEnabled = ~@, !.micMuted = ~@]

\* toggleVideo that inverts the flag and leaves the tracks as they are.
toggleVideo_flagOnly(s) ==
    IF s.localCamStream = NoStream THEN s ELSE [s EXCEPT !.camHidden = ~@]

toggleVideo(s) ==
    IF s.localCamStream = NoStream THEN s
    ELSE [s EXCEPT !.localCamStream.videoEnabled = ~@, !.camHidden = ~@]

\* startScreenShare up to `await getDisplayMedia`.
startScreenShare(s) ==
    IF s.isScreenStarting THEN s
    ELSE [s EXCEPT !.isScreenStarting = TRUE, !.statusText = StatusScreenRequest]

\* The continuation of startScreenShare.
screenAcquired(s, ok) ==
    IF ok
    THEN LET id == FreeStream(s)
         IN IF removeTrackThrows(s.pc, s.localScreenSender)
            THEN [s EXCEPT !.liveStreams = @ \cup {id},
                           !.localScreenStream = Stream(id, FALSE),
                           !.statusText = StatusScreenFailed,
                           !.isScreenStarting = FALSE]
            ELSE [s EXCEPT !.liveStreams = @ \cup {id},
                           !.localScreenStream = Stream(id, FALSE),
                           !.pc = addTrack(removeTrack(@, s.localScreenSender),
                                           Sender(id, "screen")),
                           !.localScreenSender = Sender(id, "screen"),
                           !.statusText = StatusScreenStarted,
                           !.isScreenStarting = FALSE]
    ELSE [s EXCEPT !.statusText = StatusScreenFailed, !.isScreenStarting = FALSE]

\* stopScreenShare (324-332) ends at a removeTrack that throws.
stopScreenShareThrows(s) == removeTrackThrows(s.pc, s.localScreenSender)

\* stopScreenShare as a closure that captured localScreenStream = captured.
stopScreenShareOf(s, captured) ==
    LET s1 == [s EXCEPT !.liveStreams = @ \ {captured.id},
                        !.localScreenStream = NoStream]
    IN IF stopScreenShareThrows(s)
       THEN [s1 EXCEPT !.uncaught = "InvalidAccessError"]
       ELSE [s1 EXCEPT !.pc = removeTrack(@, s.localScreenSender),
                       !.localScreenSender = NoSender,
                       !.statusText = StatusScreenStopped]

stopScreenShare(s) == stopScreenShareOf(s, s.localScreenStream)

toggleScreenShare(s) ==
    IF s.localScreenStream # NoStream THEN stopScreenShare(s) ELSE startScreenShare(s)

\* videoTrack.onended = () => stopScreenShare(): the capture of the shared
\* screen ends from outside; the hook is the stopScreenShare of the render in
\* which Share Screen was clicked, where localScreenStream was null.
screenEnded_keepsSender(s) ==
    [s EXCEPT !.liveStreams = @ \ {s.localScreenStream.id},
              !.localScreenStream = NoStream,
              !.statusText = StatusScreenStopped]

screenEnded(s) ==
    stopScreenShareOf([s EXCEPT !.liveStreams = @ \ {s.localScreenStream.id}], NoStream)

(***************************************************************************)
(* Reset (467-493) and initializePeerConnection (180-227).                 *)
(***************************************************************************)
\* peerConnection.current.close(): the connection's channels close, and an
\* invocation suspended on a call of the closed connection, or on its
\* gathering, is never resumed.
closeChans(s) ==
    LET n == liveChans(s)
    IN [s EXCEPT !.dataChannel = "null",
                 !.wired = [st \in LiveChanStates |-> IF st = "closing" THEN n ELSE 0]]

abandonOps(ops) ==
    [i \in OpIds |-> IF ops[i].phase \in {"decode", "encode"}
                     THEN [ops[i] EXCEPT !.mark = 0] ELSE IdleOp]

initializePeerConnection(s) ==
    [s EXCEPT !.pc = NewPc, !.statusText = StatusReady]

\* The state setters of lines 481-490.
clearDerived_keepsChat(s) ==
    [s EXCEPT !.remoteCamStream = <<>>,
              !.remoteScreenStream = <<>>,
              !.offerSdp = EmptyText,
              !.answerSdp = EmptyText,
              !.connectionState = "new",
              !.localIceCandidates = <<>>,
              !.remoteIceCandidates = EmptyText,
              !.chatMessage = "",
              !.dataChannelState = "closed"]

clearDerived(s) ==
    [s EXCEPT !.remoteCamStream = <<>>,
              !.remoteScreenStream = <<>>,
              !.offerSdp = EmptyText,
              !.answerSdp = EmptyText,
              !.connectionState = "new",
              !.localIceCandidates = <<>>,
              !.remoteIceCandidates = EmptyText,
              !.messages = <<>>,
              !.chatMessage = "",
              !.dataChannelState = "closed"]

\* resetConnection with the new transport installed before the teardown.
resetConnection_installsFirst(s) ==
    LET s0 == initializePeerConnection(setStatusText(s, StatusResetting))
        s1 == stopScreenShare(stopCamera(s0))
        s2 == [closeChans(s1) EXCEPT !.ops = abandonOps(@), !.emitted = 0,
                                     !.sinceClear = <<>>, !.ingests = <<>>]
    IN IF stopCameraThrows(s0) THEN stopCamera(s0)
       ELSE IF stopScreenShareThrows(stopCamera(s0)) THEN s1
       ELSE clearDerived(s2)

\* resetConnection (467-493).  Nothing in it catches: it ends where a call
\* throws.
resetConnection(s) ==
    LET s0 == setStatusText(s, StatusResetting)
        s1 == stopScreenShare(stopCamera(s0))
        s2 == [closeChans(s1) EXCEPT !.ops = abandonOps(@), !.emitted = 0,
                                     !.sinceClear = <<>>, !.ingests = <<>>]
    IN IF stopCameraThrows(s0) THEN stopCamera(s0)
       ELSE IF stopScreenShareThrows(stopCamera(s0)) THEN s1
       ELSE initializePeerConnection(clearDerived(s2))

(***************************************************************************)
(* Actions: one per handler, continuation or platform event, on peer p.   *)
(***************************************************************************)
\* The slots of ops carry no meaning: after a step the suspended invocations
\* are moved to the lowest slots, in their order, and the operations chain and
\* the listeners are renumbered with them.
RECURSIVE rank(_, _)
rank(ops, i) ==
    IF i = 0 THEN 0 ELSE rank(ops, i - 1) + (IF ops[i].kind # "idle" THEN 1 ELSE 0)

compactOps(s) ==
    LET slotOf(k) == CHOOSE i \in OpIds : s.ops[i].kind # "idle" /\ rank(s.ops, i) = k
        n == rank(s.ops, MaxOps)
    IN [s EXCEPT !.ops = [k \in OpIds |-> IF k <= n THEN s.ops[slotOf(k)] ELSE IdleOp],
                 !.pc.chain = [j \in DOMAIN @ |-> rank(s.ops, @[j])],
                 !.pc.listeners = [j \in DOMAIN @ |-> rank(s.ops, @[j])]]

Step(p, name, s2) ==
    /\ peer' = [peer EXCEPT ![p] = [compactOps(s2) EXCEPT
                                       !.afterReset = NoReset,
                                       !.justEnded = (name = "screenEnded")]]
    /\ UNCHANGED codec

\* Every kind of derived state that Reset clears holds something.
Populated(s) ==
    /\ s.localCamStream # NoStream
    /\ s.localScreenStream # NoStream
    /\ s.remoteCamStream # <<>>
    /\ s.remoteScreenStream # <<>>
    /\ s.offerSdp # EmptyText
    /\ s.answerSdp # EmptyText
    /\ s.localIceCandidates # <<>>
    /\ s.remoteIceCandidates # EmptyText
    /\ s.messages # <<>>
    /\ s.dataChannel # "null"
    /\ s.dataChannelState # "closed"

\* No invocation of a signaling handler is suspended.
NoOps(s) == \A i \in OpIds : s.ops[i].kind = "idle"

\* What the user can paste into the offer and the answer field when the
\* other peer is not modelled: nothing, blanks, junk, or a payload of the
\* other peer in either encoding.
OfferPastes(p) ==
    {EmptyText, BlankText, JunkText,
     stringifySdp(Desc("offer", Other(p))), encodeSdp(Desc("offer", Other(p)))}

AnswerPastes(p) ==
    {EmptyText,
     stringifySdp(Desc("answer", Other(p))), encodeSdp(Desc("answer", Other(p)))}

RemoteTracks == {Track("a1", "audio"), Track("v1", "video"), Track("v2", "video")}

\* The snapshots an event for the track can carry: none, or a stream that
\* holds the track.
SnapshotsOf(track) ==
    {Snapshot(FALSE, FALSE, FALSE)} \cup
    {Snapshot(TRUE, a, v) : a \in {track.kind = "audio", TRUE},
                            v \in {track.kind = "video", TRUE}}

\* ---- signaling ----
UserCreateOffer(p) ==
    /\ HasFreeOp(peer[p]) /\ HasFreeChan(peer[p])
    /\ Step(p, "createOffer", createOffer(peer[p]))

UserCreateAnswer(p) ==
    /\ trimIsEmpty(peer[p].offerSdp) \/ HasFreeOp(peer[p])
    /\ Step(p, "createAnswer", createAnswer(peer[p]))

UserAcceptAnswer(p) ==
    /\ trimIsEmpty(peer[p].answerSdp) \/ HasFreeOp(peer[p])
    /\ Step(p, "acceptAnswer", acceptAnswer(peer[p]))

UserEditOffer(p) ==
    \E t \in OfferPastes(p) :
        /\ t # peer[p].offerSdp
        /\ NoOps(peer[p])
        /\ Step(p, "editOffer", [peer[p] EXCEPT !.offerSdp = t])

UserEditAnswer(p) ==
    \E t \in AnswerPastes(p) :
        /\ t # peer[p].answerSdp
        /\ NoOps(peer[p])
        /\ Step(p, "editAnswer", [peer[p] EXCEPT !.answerSdp = t])

\* The user types into, or empties, the remote candidates field (612).
UserEditCandidates(p) ==
    \E t \in {EmptyText, JunkText} :
        /\ t # peer[p].remoteIceCandidates
        /\ Step(p, "editCandidates", [peer[p] EXCEPT !.remoteIceCandidates = t])

UserToggleCompression(p) ==
    /\ NoOps(peer[p])
    /\ Step(p, "toggleCompression", [peer[p] EXCEPT !.useSdpCompression = ~@])

\* The transport settles the call at the head of the operations chain: it
\* carries it out if the signaling state allows (ok), or rejects it.
TransportSettle(p, ok) ==
    /\ peer[p].pc.chain # <<>>
    /\ Step(p, "resolve", resolveHead(peer[p], p, ok))

TransportResolve(p) == \E ok \in BOOLEAN : TransportSettle(p, ok)

DecodeResolve(p) ==
    \E i \in OpIds :
        /\ peer[p].ops[i].phase = "decode"
        /\ Step(p, "afterDecode", afterDecode(peer[p], i))

EncodeResolve(p) ==
    \E i \in OpIds :
        /\ peer[p].ops[i].phase = "encode"
        /\ Step(p, "afterEncode", afterEncode(peer[p], i))

TransportCandidate(p) ==
    /\ peer[p].pc.iceGatheringState = "gathering"
    /\ peer[p].emitted < MaxCands
    /\ \E c \in CandVals : Step(p, "onicecandidate", emitCandidate(peer[p], c))

TransportGatheringComplete(p) ==
    /\ peer[p].pc.iceGatheringState = "gathering"
    /\ Step(p, "gatheringComplete", gatheringComplete(peer[p]))

\* The connectivity checks of a transport that holds both descriptions move
\* its iceConnectionState to st.
TransportIceStateTo(p, st) ==
    /\ localDescription(peer[p].pc) # NoDesc
    /\ remoteDescription(peer[p].pc) # NoDesc
    /\ st \in IceNext(peer[p].pc.iceConnectionState)
    /\ Step(p, "oniceconnectionstatechange", iceStateChange(peer[p], st))

TransportIceState(p) == \E st \in IceStates : TransportIceStateTo(p, st)

\* The user copies the payload the other peer exported into the offer /
\* answer field (584, 593).
UserPasteOffer(p) ==
    /\ peer[Other(p)].offerSdp.body = Desc("offer", Other(p))
    /\ peer[p].offerSdp # peer[Other(p)].offerSdp
    /\ Step(p, "pasteOffer", [peer[p] EXCEPT !.offerSdp = peer[Other(p)].offerSdp])

UserPasteAnswer(p) ==
    /\ peer[Other(p)].answerSdp.body = Desc("answer", Other(p))
    /\ peer[p].answerSdp # peer[Other(p)].answerSdp
    /\ Step(p, "pasteAnswer", [peer[p] EXCEPT !.answerSdp = peer[Other(p)].answerSdp])

\* ---- remote candidates ----
CandidatePastes ==
    {BlankText, JunkText, Text("json", JsonNotArray), Text("json", JsonArray(<<>>)),
     Text("json", JsonArray(<<"c1", "c2">>)),
     Text("json", JsonArray(<<"null", "c2", "empty", "c1">>)),
     Text("json", JsonArray(<<"c1", "bad", "c2">>))}

UserPasteCandidates(p) ==
    \E t \in CandidatePastes :
        /\ t # peer[p].remoteIceCandidates
        /\ Step(p, "pasteCandidates", [peer[p] EXCEPT !.remoteIceCandidates = t])

UserAddCandidates(p) ==
    /\ Len(peer[p].ingests) < MaxIngests
    /\ Len(peer[p].pc.remoteCandidates) < MaxCands
    /\ Step(p, "addRemoteCandidates", addRemoteCandidates(peer[p]))

IngestSettle(p) ==
    \E k \in 1..Len(peer[p].ingests), ok \in BOOLEAN :
        Step(p, "addIceCandidate", addIceSettled(peer[p], k, ok))

\* ---- side channel ----
TransportDataChannel(p) ==
    /\ peer[p].pc.iceConnectionState = "connected"
    /\ remoteDescription(peer[p].pc) # NoDesc
    /\ HasFreeChan(peer[p])
    /\ Step(p, "ondatachannel", ondatachannel(peer[p]))

ChanOpen(p) ==
    \E c \in {"current", "connecting", "announcing"} :
        /\ chanExists(peer[p], c)
        /\ \/ chanState(peer[p], c) = "announcing"
           \/ chanState(peer[p], c) = "connecting"
              /\ peer[p].pc.iceConnectionState = "connected"
        /\ Step(p, "onopen", chanOpen(peer[p], c))

ChanCloseOf(p, c) ==
    /\ chanExists(peer[p], c)
    /\ chanState(peer[p], c) \in {"closing", "open"}
    /\ Step(p, "onclose", chanClose(peer[p], c))

ChanClose(p) == \E c \in {"current", "closing", "open"} : ChanCloseOf(p, c)

\* The close event of a channel that is closing.
ChanClosed(p) ==
    \E c \in {"current", "closing"} :
        chanState(peer[p], c) = "closing" /\ ChanCloseOf(p, c)

\* The channel starts closing because the other side closed it or the
\* transport went away: readyState is closing, and no handler is wired to
\* the closing event.
ChanClosing(p) ==
    \E c \in {"current", "open"} :
        /\ chanExists(peer[p], c)
        /\ chanState(peer[p], c) = "open"
        /\ Step(p, "closing", moveChan(peer[p], c, "closing"))

ChanMessage(p) ==
    /\ chanIsOpen(peer[p]) \/ peer[p].wired["open"] > 0 \/ peer[p].wired["announcing"] > 0
    /\ peer[p].received < MaxMsgs
    /\ \E data \in {"hi", "yo"} : Step(p, "onmessage", chanMessage(peer[p], data))

\* The next message the other peer sent arrives: the channel is ordered and
\* reliable between two transports that are paired.
Deliver(p) ==
    /\ chanIsOpen(peer[p])
    /\ peer[p].received < Len(peer[Other(p)].wire)
    /\ Step(p, "onmessage",
            chanMessage(peer[p], peer[Other(p)].wire[peer[p].received + 1]))

UserType(p) ==
    /\ peer[p].dataChannelState = "open"
    /\ \E t \in ChatTexts :
           /\ t # peer[p].chatMessage
           /\ Step(p, "type", [peer[p] EXCEPT !.chatMessage = t])

UserSend(p) ==
    /\ Len(peer[p].wire) < MaxMsgs
    /\ Step(p, "sendMessage", sendMessage(peer[p]))

\* ---- remote tracks ----
\* A track event for one of the given tracks of the remote peer.
TransportTrackOf(p, tracks) ==
    /\ remoteDescription(peer[p].pc) # NoDesc
    /\ \E track \in tracks : \E stream \in SnapshotsOf(track) :
           Step(p, "ontrack", ontrack(peer[p], track, stream))

TransportTrack(p) == TransportTrackOf(p, RemoteTracks)

\* ---- media ----
UserStartCamera(p) ==
    /\ peer[p].localCamStream = NoStream
    /\ ~peer[p].isCameraStarting
    /\ Step(p, "startCamera", startCamera(peer[p]))

CameraResolve(p) ==
    /\ peer[p].isCameraStarting
    /\ \E ok \in BOOLEAN :
           /\ ok => HasFreeStream(peer[p])
           /\ Step(p, "cameraAcquired", cameraAcquired(peer[p], ok))

UserStopCamera(p) ==
    /\ peer[p].localCamStream # NoStream
    /\ Step(p, "stopCamera", stopCamera(peer[p]))

UserToggleMic(p) ==
    /\ peer[p].localCamStream # NoStream
    /\ Step(p, "toggleMic", toggleMic(peer[p]))

UserToggleVideo(p) ==
    /\ peer[p].localCamStream # NoStream
    /\ Step(p, "toggleVideo", toggleVideo(peer[p]))

UserToggleScreenShare(p) ==
    /\ ~peer[p].isScreenStarting
    /\ Step(p, "toggleScreenShare", toggleScreenShare(peer[p]))

ScreenResolve(p) ==
    /\ peer[p].isScreenStarting
    /\ \E ok \in BOOLEAN :
           /\ ok => HasFreeStream(peer[p])
           /\ Step(p, "screenAcquired", screenAcquired(peer[p], ok))

ScreenEnded(p) ==
    /\ peer[p].localScreenStream # NoStream
    /\ peer[p].localScreenStream.id \in peer[p].liveStreams
    /\ Step(p, "screenEnded", screenEnded(peer[p]))

\* ---- reset ----
UserReset(p) ==
    /\ peer' = [peer EXCEPT ![p] =
                   [compactOps(resetConnection(peer[p])) EXCEPT
                       !.afterReset = ResetFrom(peer[p].connectionState, Populated(peer[p])),
                       !.justEnded = FALSE]]
    /\ UNCHANGED codec

(***************************************************************************)
(* One run of the codec on strings: a local description is exported        *)
(* (371-379), the text is carried to the peer whole, cut short or replaced *)
(* by something else, and the peer's decodeSdp is applied to it (394, 435).*)
(***************************************************************************)
\* The characters of an sdp: a letter, a line feed, a quote, a backslash
\* and a letter outside ASCII.
SdpChars == {118, 10, 34, 92, 233}

SdpTexts == UNION {[1..n -> SdpChars] : n \in 0..MaxSdpLen}

\* localDesc.toJSON() of an offer or an answer.
LocalDescriptions ==
    {SessionDescription(type, sdp) : type \in {WordOffer, WordAnswer}, sdp \in SdpTexts}

\* Texts a user can paste that no export produced: 123, null, {}, "v", a
\* blank, Hi, H4sI, v=0!, and the compressed form of the text 123.
ForeignTexts ==
    { <<49, 50, 51>>, <<110, 117, 108, 108>>, <<123, 125>>, <<34, 118, 34>>, <<32>>,
      <<72, 105>>, <<72, 52, 115, 73>>, <<118, 61, 48, 33>>,
      arrayBufferToBase64(gzip(<<49, 50, 51>>)) }

\* decodeSdp has not run.
NotDecoded == [ok |-> FALSE, value |-> JsNull, path |-> "none"]

CodecRun(stage, localDesc, useSdpCompression, data, intact, result) ==
    [stage |-> stage, localDesc |-> localDesc, useSdpCompression |-> useSdpCompression,
     data |-> data, intact |-> intact, result |-> result]

\* No codec run is going on.
NoCodecRun == CodecRun("idle", JsNull, FALSE, <<>>, FALSE, NotDecoded)

\* The text createOffer / createAnswer write to the payload field (371-379,
\* 413-421).
exportDescription(localDesc, useSdpCompression) ==
    IF useSdpCompression THEN encodeSdpString(localDesc) ELSE jsonStringify(localDesc)

CodecExport ==
    /\ codec.stage = "described"
    /\ codec' = [codec EXCEPT !.stage = "exported", !.intact = TRUE,
                              !.data = exportDescription(codec.localDesc,
                                                         codec.useSdpCompression)]
    /\ UNCHANGED peer

\* The peer pastes the export without its last characters.
CodecPastePart ==
    /\ codec.stage = "exported"
    /\ \E k \in 1..MaxCut :
          /\ Len(codec.data) > k
          /\ codec' = [codec EXCEPT !.stage = "pasted", !.intact = FALSE,
                                    !.data = SubSeq(codec.data, 1, Len(codec.data) - k)]
    /\ UNCHANGED peer

\* The peer pastes something else.
CodecPasteForeign ==
    /\ codec.stage = "described"
    /\ \E text \in ForeignTexts :
          codec' = [codec EXCEPT !.stage = "pasted", !.intact = FALSE, !.data = text]
    /\ UNCHANGED peer

\* await decodeSdp(offerSdp) / await decodeSdp(answerSdp)
CodecDecode ==
    /\ codec.stage \in {"exported", "pasted"}
    /\ codec' = [codec EXCEPT !.stage = "decoded", !.result = decodeSdpString(codec.data)]
    /\ UNCHANGED peer


(***************************************************************************)
(* Specifications.                                                         *)
(***************************************************************************)
Init == peer = [p \in Peers |-> InitSession] /\ codec = NoCodecRun

\* One peer; the other peer and the network are the environment.
\* Spec: the signaling handlers, with a transport that emits no candidate.
Next ==
    \/ UserCreateOffer("A")
    \/ UserCreateAnswer("A")
    \/ UserAcceptAnswer("A")
    \/ UserEditOffer("A")
    \/ UserToggleCompression("A")
    \/ TransportResolve("A")
    \/ DecodeResolve("A")
    \/ EncodeResolve("A")
    \/ TransportGatheringComplete("A")
    \/ ChanClose("A")
    \/ UserReset("A")

Spec == Init /\ [][Next]_vars

\* SpecCand: the handlers that clear the candidate buffer and the candidates
\* of the transport, with the compression option left on.
NextCand ==
    \/ UserCreateOffer("A")
    \/ UserCreateAnswer("A")
    \/ UserEditOffer("A")
    \/ TransportResolve("A")
    \/ DecodeResolve("A")
    \/ EncodeResolve("A")
    \/ TransportCandidate("A")
    \/ TransportGatheringComplete("A")
    \/ UserReset("A")

SpecCand == Init /\ [][NextCand]_vars

\* SpecInput: the three signaling handlers and the candidates of the
\* transport, on a session that is not reset.
NextInput ==
    \/ UserCreateOffer("A")
    \/ UserCreateAnswer("A")
    \/ UserAcceptAnswer("A")
    \/ UserEditOffer("A")
    \/ TransportResolve("A")
    \/ DecodeResolve("A")
    \/ EncodeResolve("A")
    \/ TransportCandidate("A")
    \/ TransportGatheringComplete("A")

SpecInput == Init /\ [][NextInput]_vars

\* SpecRouter: the answering peer applies a remote offer and the transport
\* delivers track events for the remote peer's tracks.
NextRouter ==
    \/ UserEditOffer("A")
    \/ UserCreateAnswer("A")
    \/ DecodeResolve("A")
    \/ TransportResolve("A")
    \/ TransportTrack("A")
    \/ UserReset("A")

SpecRouter == Init /\ [][NextRouter]_vars

\* No negotiation has touched the session's transport.
Fresh(s) ==
    /\ NoOps(s)
    /\ s.dataChannel = "null"
    /\ localDescription(s.pc) = NoDesc
    /\ remoteDescription(s.pc) = NoDesc

\* SpecSession: the offering peer sets a session up one step after the other
\* (camera, screen share, offer, answer, connectivity, chat channel, remote
\* tracks, a chat message, the remote candidates field) on a transport that
\* carries out every call, and may reset it at any moment.
NextSession ==
    \/ Fresh(peer["A"]) /\ UserStartCamera("A")
    \/ CameraResolve("A")
    \/ /\ Fresh(peer["A"])
       /\ peer["A"].localCamStream # NoStream
       /\ peer["A"].localScreenStream = NoStream
       /\ UserToggleScreenShare("A")
    \/ ScreenResolve("A")
    \/ /\ Fresh(peer["A"])
       /\ peer["A"].localScreenStream # NoStream
       /\ UserCreateOffer("A")
    \/ TransportSettle("A", TRUE)
    \/ peer["A"].emitted = 0 /\ TransportCandidate("A")
    \/ TransportGatheringComplete("A")
    \/ EncodeResolve("A")
    \/ peer["A"].offerSdp # EmptyText /\ UserEditAnswer("A")
    \/ NoOps(peer["A"]) /\ UserAcceptAnswer("A")
    \/ DecodeResolve("A")
    \/ TransportIceState("A")
    \/ ChanOpen("A")
    \/ /\ peer["A"].dataChannelState = "open"
       /\ TransportTrackOf("A", {Track("a1", "audio"), Track("v2", "video")})
    \/ /\ peer["A"].remoteCamStream # <<>>
       /\ peer["A"].remoteScreenStream # <<>>
       /\ peer["A"].received = 0
       /\ ChanMessage("A")
    \/ peer["A"].messages # <<>> /\ UserEditCandidates("A")
    \/ UserReset("A")

SpecSession == Init /\ [][NextSession]_vars

\* Each transport holds, as its remote description, the local description of
\* the other.
Paired ==
    \A p \in Peers :
        /\ localDescription(peer[p].pc) # NoDesc
        /\ remoteDescription(peer[Other(p)].pc) = localDescription(peer[p].pc)

\* SpecE2E: peer A offers, peer B answers, peer A accepts, each user copying
\* the payload the other exported; B may start its camera first.  The
\* transports carry out every call, complete gathering and, once paired,
\* their connectivity checks; the platform resumes every suspended
\* invocation (weak fairness of the platform's steps).  The users are under
\* no obligation.
NextE2E ==
    \/ \E p \in Peers : Fresh(peer[p]) /\ UserToggleCompression(p)
    \/ Fresh(peer["B"]) /\ UserStartCamera("B")
    \/ CameraResolve("B")
    \/ Fresh(peer["A"]) /\ UserCreateOffer("A")
    \/ Fresh(peer["B"]) /\ UserPasteOffer("B")
    \/ /\ Fresh(peer["B"])
       /\ peer["B"].offerSdp.body = Desc("offer", "A")
       /\ UserCreateAnswer("B")
    \/ peer["A"].pc.signalingState = "have-local-offer" /\ UserPasteAnswer("A")
    \/ /\ NoOps(peer["A"])
       /\ peer["A"].pc.signalingState = "have-local-offer"
       /\ peer["A"].answerSdp.body = Desc("answer", "B")
       /\ UserAcceptAnswer("A")
    \/ \E p \in Peers : TransportSettle(p, TRUE)
    \/ \E p \in Peers : DecodeResolve(p)
    \/ \E p \in Peers : EncodeResolve(p)
    \/ \E p \in Peers : peer[p].emitted = 0 /\ TransportCandidate(p)
    \/ \E p \in Peers : TransportGatheringComplete(p)
    \/ \E p \in Peers : TransportIceStateTo(p, "checking")
    \/ \E p \in Peers : Paired /\ TransportIceStateTo(p, "connected")

FairE2E ==
    \A p \in Peers :
        /\ WF_vars(TransportSettle(p, TRUE))
        /\ WF_vars(DecodeResolve(p))
        /\ WF_vars(EncodeResolve(p))
        /\ WF_vars(TransportGatheringComplete(p))
        /\ WF_vars(TransportIceStateTo(p, "checking"))
        /\ WF_vars(Paired /\ TransportIceStateTo(p, "connected"))

SpecE2E == Init /\ [][NextE2E]_vars /\ FairE2E

\* No chat message has been sent or received.
NoTraffic == \A p \in Peers : peer[p].wire = <<>> /\ peer[p].received = 0

\* SpecChat: the exchange of SpecE2E followed by chat.  The channel A created
\* is announced to B and opens on both sides; user A types and submits the
\* chat form, in any state of the channel; a user who holds a channel may
\* reset, which closes the channel of the other side; the peers start over
\* only when both have reset, and B does not answer an offer that A has
\* already paired with an answer.  The platform
\* resumes suspended invocations, announces and opens the channel, fires the
\* close event of a closing channel and delivers what was sent (weak
\* fairness); the users are under no
\* obligation.
NextChat ==
    \/ Fresh(peer["A"]) /\ Fresh(peer["B"]) /\ NoTraffic /\ UserCreateOffer("A")
    \/ Fresh(peer["B"]) /\ peer["A"].answerSdp = EmptyText /\ UserPasteOffer("B")
    \/ /\ Fresh(peer["B"])
       /\ peer["B"].offerSdp.body = Desc("offer", "A")
       /\ UserCreateAnswer("B")
    \/ peer["A"].pc.signalingState = "have-local-offer" /\ UserPasteAnswer("A")
    \/ /\ NoOps(peer["A"])
       /\ peer["A"].pc.signalingState = "have-local-offer"
       /\ peer["A"].answerSdp.body = Desc("answer", "B")
       /\ UserAcceptAnswer("A")
    \/ \E p \in Peers : TransportSettle(p, TRUE)
    \/ \E p \in Peers : DecodeResolve(p)
    \/ \E p \in Peers : EncodeResolve(p)
    \/ \E p \in Peers : TransportGatheringComplete(p)
    \/ \E p \in Peers : TransportIceStateTo(p, "checking")
    \/ \E p \in Peers : Paired /\ TransportIceStateTo(p, "connected")
    \/ Paired /\ peer["B"].dataChannel = "null" /\ TransportDataChannel("B")
    \/ \E p \in Peers : Paired /\ ChanOpen(p)
    \/ \E p \in Peers : ~Paired /\ ChanClosing(p)
    \/ \E p \in Peers : ChanClosed(p)
    \/ UserType("A")
    \/ UserSend("A")
    \/ \E p \in Peers : Paired /\ Deliver(p)
    \/ \E p \in Peers : peer[p].dataChannel # "null" /\ UserReset(p)

FairChat ==
    /\ FairE2E
    /\ WF_vars(Paired /\ peer["B"].dataChannel = "null" /\ TransportDataChannel("B"))
    /\ \A p \in Peers :
          /\ WF_vars(Paired /\ ChanOpen(p))
          /\ WF_vars(ChanClosed(p))
          /\ WF_vars(Paired /\ Deliver(p))

SpecChat == Init /\ [][NextChat]_vars /\ FairChat

\* SpecMedia: one peer starts and stops its camera and its screen share, with
\* acquisitions that succeed or fail and a shared screen that can end from
\* outside, creates offers and answers (one invocation at a time, on a
\* transport that carries out every call), and may reset at any moment.
NextMedia ==
    \/ UserStartCamera("A")
    \/ CameraResolve("A")
    \/ UserStopCamera("A")
    \/ UserToggleScreenShare("A")
    \/ ScreenResolve("A")
    \/ ScreenEnded("A")
    \/ NoOps(peer["A"]) /\ UserCreateOffer("A")
    \/ NoOps(peer["A"]) /\ UserEditOffer("A")
    \/ NoOps(peer["A"]) /\ UserCreateAnswer("A")
    \/ DecodeResolve("A")
    \/ TransportSettle("A", TRUE)
    \/ TransportGatheringComplete("A")
    \/ EncodeResolve("A")
    \/ UserReset("A")

SpecMedia == Init /\ [][NextMedia]_vars

\* SpecCamera: one peer starts and stops its camera, mutes and hides it,
\* shares its screen, which can end from outside, creates offers on a
\* transport that carries out every call and emits candidates, and may reset
\* at any moment.
NextCamera ==
    \/ UserStartCamera("A")
    \/ CameraResolve("A")
    \/ UserStopCamera("A")
    \/ UserToggleMic("A")
    \/ UserToggleVideo("A")
    \/ UserToggleScreenShare("A")
    \/ ScreenResolve("A")
    \/ ScreenEnded("A")
    \/ NoOps(peer["A"]) /\ peer["A"].offerSdp = EmptyText /\ UserCreateOffer("A")
    \/ TransportSettle("A", TRUE)
    \/ TransportCandidate("A")
    \/ TransportGatheringComplete("A")
    \/ EncodeResolve("A")
    \/ UserReset("A")

SpecCamera == Init /\ [][NextCamera]_vars

\* SpecIngest: one peer pastes candidate lists and adds them, before and
\* after it has taken an offer as its remote description, on a transport
\* that accepts or rejects each candidate, and may reset.
NextIngest ==
    \/ UserPasteCandidates("A")
    \/ UserAddCandidates("A")
    \/ IngestSettle("A")
    \/ NoOps(peer["A"]) /\ remoteDescription(peer["A"].pc) = NoDesc /\ UserEditOffer("A")
    \/ NoOps(peer["A"]) /\ remoteDescription(peer["A"].pc) = NoDesc /\ UserCreateAnswer("A")
    \/ DecodeResolve("A")
    \/ TransportSettle("A", TRUE)
    \/ UserReset("A")

SpecIngest == Init /\ [][NextIngest]_vars

\* SpecCodec: the codec on strings, over every description within the bounds
\* and both settings of the compression switch.
InitCodec ==
    /\ peer = [p \in Peers |-> InitSession]
    /\ codec \in {CodecRun("described", d, c, <<>>, FALSE, NotDecoded) :
                     d \in LocalDescriptions, c \in BOOLEAN}

NextCodec ==
    \/ CodecExport
    \/ CodecPastePart
    \/ CodecPasteForeign
    \/ CodecDecode

SpecCodec == InitCodec /\ [][NextCodec]_vars

(***************************************************************************)
(* Properties of the end-to-end exchange.                                  *)
(***************************************************************************)
\* Peer A has invoked acceptAnswer on the answer of B.
AcceptInvoked == \E i \in OpIds : peer["A"].ops[i].kind = "accept"

BothConnected == \A p \in Peers : peer[p].connectionState = "connected"

\* The step is a step of a createAnswer invocation of p: the click or one of
\* its continuations.
CreateAnswerStep(p) ==
    \/ UserCreateAnswer(p)
    \/ /\ \E i \in OpIds : peer[p].ops[i].kind = "answer"
       /\ \/ DecodeResolve(p)
          \/ TransportSettle(p, TRUE)
          \/ TransportGatheringComplete(p)
          \/ EncodeResolve(p)

\* C3: once A has offered, B has answered that offer and A has invoked
\* acceptAnswer on that answer, connectionState of both peers eventually is
\* connected; and no step of B's createAnswer changes B's local camera stream
\* or the senders of its tracks.
C3_EndToEndConnects ==
    /\ AcceptInvoked ~> BothConnected
    /\ [][CreateAnswerStep("B")
             => /\ peer'["B"].localCamStream = peer["B"].localCamStream
                /\ peer'["B"].pc.senders = peer["B"].pc.senders]_vars

\* Both peers are connected after an exchange in which B, its camera
\* started, created the answer.
C3_Witness ==
    /\ BothConnected
    /\ peer["B"].localCamStream # NoStream
    /\ peer["B"].answerSdp.body = Desc("answer", "B")
    /\ peer["A"].statusText = StatusIce("connected")

(***************************************************************************)
(* Properties of Reset.                                                    *)
(***************************************************************************)
\* The session is in its ready state with a freshly constructed transport and
\* nothing derived from an earlier negotiation.
Cleared(s) ==
    /\ s.statusText = StatusReady
    /\ s.pc = NewPc
    /\ s.localCamStream = NoStream
    /\ s.localScreenStream = NoStream
    /\ s.remoteCamStream = <<>>
    /\ s.remoteScreenStream = <<>>
    /\ s.offerSdp = EmptyText
    /\ s.answerSdp = EmptyText
    /\ s.localIceCandidates = <<>>
    /\ s.remoteIceCandidates = EmptyText
    /\ s.messages = <<>>
    /\ s.dataChannelState = "closed"
    /\ s.dataChannel = "null"
    /\ s.connectionState = "new"

\* C1: in the state a Reset leaves, whatever state it was invoked in, the
\* session is ready with a fresh transport, the four media buckets, both
\* payload fields, the candidate buffer, the remote candidates field and the
\* chat log are empty, the chat channel state is closed with no channel
\* referred to, and connectionState is new.
C1_ResetClearsEverything ==
    \A p \in Peers : peer[p].afterReset # NoReset => Cleared(peer[p])

\* Reset was invoked on a connected session in which every item it clears
\* held something.
C1_Witness == peer["A"].afterReset = ResetFrom("connected", TRUE)

(***************************************************************************)
(* Properties of the Track Router.                                         *)
(***************************************************************************)
\* The step is the track event for the given track and stream snapshot.
TrackEvent(p, track, stream) == Step(p, "ontrack", ontrack(peer[p], track, stream))

\* Bucket after is bucket before with the track put at its end.
Added(before, after, track) == ~hasTrack(before, track.id) /\ after = Append(before, track)

\* C7: a track event that carries a stream snapshot and changes the state adds
\* the track to the remote camera bucket, and leaves the screen bucket alone,
\* if the track is audio or the snapshot holds both an audio and a video
\* track; else, the track being video, it adds it to the remote screen
\* bucket and leaves the camera bucket alone.
C7_RouterClassification ==
    [][\A p \in Peers : \A track \in RemoteTracks : \A stream \in SnapshotsOf(track) :
          (stream.present /\ peer'[p] # peer[p] /\ TrackEvent(p, track, stream))
              => IF track.kind = "audio" \/ (stream.audio /\ stream.video)
                 THEN /\ Added(peer[p].remoteCamStream, peer'[p].remoteCamStream, track)
                      /\ peer'[p].remoteScreenStream = peer[p].remoteScreenStream
                 ELSE /\ track.kind = "video"
                      /\ Added(peer[p].remoteScreenStream, peer'[p].remoteScreenStream, track)
                      /\ peer'[p].remoteCamStream = peer[p].remoteCamStream]_vars

\* The audio and a video track of one stream are in the camera bucket and the
\* track of a video-only stream is in the screen bucket.
C7_Witness ==
    /\ hasTrack(peer["A"].remoteCamStream, "a1")
    /\ hasTrack(peer["A"].remoteCamStream, "v1")
    /\ peer["A"].remoteScreenStream = <<Track("v2", "video")>>

\* No two entries of the bucket have the same track id.
NoDuplicates(bucket) ==
    \A j, k \in DOMAIN bucket : bucket[j].id = bucket[k].id => j = k

\* Bucket after is bucket before, or bucket before with one entry more at its
\* end, or (emptied is TRUE) empty.
Grows(before, after, emptied) ==
    \/ after = before
    \/ Len(after) = Len(before) + 1 /\ SubSeq(after, 1, Len(before)) = before
    \/ emptied /\ after = <<>>

\* C8: no remote bucket ever holds two tracks with the same id, and a bucket
\* changes only by getting a track at its end (or by being emptied by Reset):
\* its tracks are in the order of their first arrival.
C8_BucketsHaveNoDuplicates ==
    [][\A p \in Peers :
          /\ NoDuplicates(peer'[p].remoteCamStream)
          /\ NoDuplicates(peer'[p].remoteScreenStream)
          /\ Grows(peer[p].remoteCamStream, peer'[p].remoteCamStream,
                   peer'[p].afterReset # NoReset)
          /\ Grows(peer[p].remoteScreenStream, peer'[p].remoteScreenStream,
                   peer'[p].afterReset # NoReset)]_vars

\* Three tracks are in the camera bucket, in an order of arrival, and the
\* first of them, delivered a second time with a video-only snapshot, is in
\* the screen bucket as well.
C8_Witness ==
    /\ Len(peer["A"].remoteCamStream) = 3
    /\ peer["A"].remoteCamStream[1].id = "v2"
    /\ hasTrack(peer["A"].remoteScreenStream, "v2")

(***************************************************************************)
(* Properties of the signaling handlers.                                   *)
(***************************************************************************)
\* A negotiation has started on the session: a createOffer or createAnswer is
\* suspended, or the transport holds a local or a remote description.
NegotiationStarted(s) ==
    \/ \E i \in OpIds : s.ops[i].kind \in {"offer", "answer"}
    \/ localDescription(s.pc) # NoDesc
    \/ remoteDescription(s.pc) # NoDesc

\* The invocations of createOffer / createAnswer that are suspended on the
\* session's current transport, after their setLocalIceCandidates([]) and
\* before their export.
GatheringRounds(s) ==
    {i \in OpIds : /\ s.ops[i].kind \in {"offer", "answer"}
                   /\ s.ops[i].phase \in {"createOffer", "createAnswer", "setLocal",
                                           "setRemote", "gather"}}

\* The number of invocations suspended on encodeSdp.
Encoding(s) == Cardinality({i \in OpIds : s.ops[i].phase = "encode"})

\* The step writes a payload the peer exported into its offer or answer field.
Exports(p) ==
    \/ peer'[p].offerSdp # peer[p].offerSdp /\ peer'[p].offerSdp.body.sdp = p
    \/ peer'[p].answerSdp # peer[p].answerSdp /\ peer'[p].answerSdp.body.sdp = p

\* C2: createAnswer invoked with an empty or blank offer field, and
\* acceptAnswer invoked with an empty answer field, set the input-error
\* status and change nothing else: the transport, the suspended invocations,
\* the candidate buffer and both payload fields are as before.
C2_EmptyInputMutatesNothing ==
    [][\A p \in Peers :
          /\ (trimIsEmpty(peer[p].offerSdp) /\ UserCreateAnswer(p))
                 => /\ peer'[p].statusText = StatusPasteOffer
                    /\ peer'[p] = [peer[p] EXCEPT !.statusText = StatusPasteOffer,
                                                  !.afterReset = NoReset]
          /\ (trimIsEmpty(peer[p].answerSdp) /\ UserAcceptAnswer(p))
                 => /\ peer'[p].statusText = StatusPasteAnswer
                    /\ peer'[p] = [peer[p] EXCEPT !.statusText = StatusPasteAnswer,
                                                  !.afterReset = NoReset]]_vars

\* createAnswer was invoked with a blank offer field on a session whose
\* transport holds a local description and whose candidate buffer is not empty.
C2_Witness ==
    /\ peer["A"].statusText = StatusPasteOffer
    /\ peer["A"].offerSdp = BlankText
    /\ peer["A"].localIceCandidates # <<>>
    /\ localDescription(peer["A"].pc) # NoDesc

\* C4: a step that writes an exported payload, or that suspends an invocation
\* on the encoding of its payload, is taken with iceGatheringState complete,
\* unless the payload is written by an invocation that was suspended on the
\* encoding; so no payload is exported before gathering completed, and none
\* at all if it never completes.
C4_ExportOnlyAfterGatheringComplete ==
    [][\A p \in Peers :
          /\ Exports(p) => \/ peer'[p].pc.iceGatheringState = "complete"
                            \/ Encoding(peer'[p]) < Encoding(peer[p])
          /\ Encoding(peer'[p]) > Encoding(peer[p])
                 => peer'[p].pc.iceGatheringState = "complete"]_vars

\* createOffer exported its payload.
C4_Witness ==
    /\ peer["A"].offerSdp.body = Desc("offer", "A")
    /\ peer["A"].statusText = StatusOfferCreated
    /\ peer["A"].pc.iceGatheringState = "complete"

\* C5: createOffer invoked after a negotiation has started has no effect: no
\* data channel is created, the candidate buffer is not cleared and no
\* invocation is started.
C5_CreateOfferOnlyFromReady ==
    [][\A p \in Peers :
          (UserCreateOffer(p) /\ NegotiationStarted(peer[p]))
              => /\ peer'[p].dataChannel = peer[p].dataChannel
                 /\ peer'[p].wired = peer[p].wired
                 /\ peer'[p].localIceCandidates = peer[p].localIceCandidates
                 /\ peer'[p].ops = peer[p].ops]_vars

\* C6: at most one createOffer / createAnswer invocation is suspended on the
\* session's transport between its clear and its export.
C6_OneGatheringRound ==
    \A p \in Peers : Cardinality(GatheringRounds(peer[p])) <= 1

\* C9: the exported candidate list is the list of candidates the transport
\* emitted since the buffer was last cleared, in emission order, duplicates
\* included.
C9_ExportIsEmittedSinceClear ==
    \A p \in Peers : exportCandidates(peer[p].localIceCandidates) = peer[p].sinceClear

\* The same candidate was emitted twice after a clear that followed an
\* earlier emission.
C9_Witness ==
    /\ peer["A"].emitted > Len(peer["A"].sinceClear)
    /\ Len(peer["A"].sinceClear) = 2
    /\ peer["A"].sinceClear[1] = peer["A"].sinceClear[2]
    /\ Len(peer["A"].localIceCandidates) = 2

\* The candidate buffer holds no candidate emitted before a suspended
\* createOffer / createAnswer invocation started.
BufferOfThisRound(s) ==
    \A i \in OpIds :
        s.ops[i].kind \in {"offer", "answer"}
            => \A k \in DOMAIN s.localIceCandidates :
                   s.localIceCandidates[k].id > s.ops[i].mark

\* C10: the candidate buffer loses candidates only by being emptied, in the
\* step that starts a createOffer or createAnswer call (or in a Reset) and in
\* no later step of the call; so while a call is suspended, up to the step in
\* which it exports, the buffer holds no candidate emitted before the call.
C10_ClearedOnceAtRoundStart ==
    [][\A p \in Peers :
          /\ BufferOfThisRound(peer'[p])
          /\ Len(peer'[p].localIceCandidates) < Len(peer[p].localIceCandidates)
                 => /\ peer'[p].localIceCandidates = <<>>
                    /\ UserCreateOffer(p) \/ UserCreateAnswer(p) \/ UserReset(p)]_vars

\* A second round is about to export: it started after a candidate had been
\* emitted, has gathered a candidate of its own and waits for the encoding.
C10_Witness ==
    \E i \in OpIds :
        /\ peer["A"].ops[i].kind \in {"offer", "answer"}
        /\ peer["A"].ops[i].phase = "encode"
        /\ peer["A"].ops[i].mark > 0
        /\ peer["A"].localIceCandidates # <<>>

(***************************************************************************)
(* Properties of the codec.                                                *)
(***************************************************************************)
\* The members of a value with the given key.
membersOf(value, key) ==
    {k \in 1..Len(value.members) : value.members[k].key = key}

\* The value is a structurally valid payload: an object whose type is a
\* description type and whose sdp is a string.
isPayload(value) ==
    /\ value.kind = "object"
    /\ membersOf(value, KeyType) # {}
    /\ membersOf(value, KeySdp) # {}
    /\ \A k \in membersOf(value, KeyType) :
          /\ value.members[k].value.kind = "string"
          /\ value.members[k].value.text \in {WordOffer, WordAnswer}
    /\ \A k \in membersOf(value, KeySdp) : value.members[k].value.kind = "string"

\* The text is the canonical form of a payload.
isCanonical(text) == jsonParse(text).ok /\ isPayload(jsonParse(text).value)

\* The text is the base64 form of the gzip of the canonical form of a payload.
isBlob(text) ==
    /\ base64ToArrayBuffer(text).ok
    /\ gunzip(base64ToArrayBuffer(text).value).ok
    /\ isCanonical(utf8Decode(gunzip(base64ToArrayBuffer(text).value).value))

\* C11: what the peer decodes from an export that reached it whole is the
\* exporter's local description, with compression on (decode(encode(P)) = P)
\* and with compression off.
C11_RoundTrip ==
    (codec.stage = "decoded" /\ codec.intact) =>
        /\ codec.result.ok
        /\ codec.result.value = codec.localDesc

\* A compressed export of an answer whose sdp holds a quote and a letter
\* outside ASCII has been decoded, through the fallback path.
C11_Witness ==
    /\ codec.stage = "decoded"
    /\ codec.intact
    /\ codec.useSdpCompression
    /\ codec.localDesc = SessionDescription(WordAnswer, <<34, 233>>)
    /\ codec.result = Decoded(codec.localDesc, "fallback")

\* C12: a canonical-form text is decoded by the direct parse; the fallback is
\* used only when the direct parse failed; and a text that is neither the
\* canonical form of a payload nor the base64 gzip blob of one makes
\* decodeSdp fail instead of returning a value.
C12_FormatAutoDetection ==
    codec.stage = "decoded" =>
        /\ isCanonical(codec.data) => codec.result.path = "direct"
        /\ codec.result.path = "fallback" => ~jsonParse(codec.data).ok
        /\ (~isCanonical(codec.data) /\ ~isBlob(codec.data)) => ~codec.result.ok

(***************************************************************************)
(* Properties of the side channel.                                         *)
(***************************************************************************)
\* C13: submitting the chat form has an effect only when the side-channel
\* state is open: in closed or connecting, or with a message that trims
\* to nothing, no error is raised, nothing is sent and the log is unchanged;
\* in open the message is sent and appended to the log with origin local.
C13_SendOnlyWhenOpen ==
    [][\A p \in Peers :
          UserSend(p) =>
              IF trimChat(peer[p].chatMessage) = "" \/ peer[p].dataChannelState # "open"
              THEN /\ peer'[p].uncaught = peer[p].uncaught
                   /\ peer'[p].wire = peer[p].wire
                   /\ peer'[p].messages = peer[p].messages
              ELSE /\ peer'[p].uncaught = peer[p].uncaught
                   /\ peer'[p].wire = Append(peer[p].wire, trimChat(peer[p].chatMessage))
                   /\ peer'[p].messages =
                          Append(peer[p].messages,
                                 Msg(trimChat(peer[p].chatMessage), "local"))]_vars

\* The texts of the entries of a log that have the given origin, in the
\* order of the log.
textsOf(log, sender) ==
    LET own == SelectSeq(log, LAMBDA m : m.sender = sender)
    IN [k \in 1..Len(own) |-> own[k].text]

isPrefix(a, b) == Len(a) <= Len(b) /\ SubSeq(b, 1, Len(a)) = a

\* The k-th message A sent has not reached B.
InFlight(k) == Len(peer["A"].wire) >= k /\ peer["B"].received < k

\* The k-th message A sent is the entry B's log ends with, with origin remote.
Appended(k) ==
    /\ peer["B"].received = k
    /\ peer["B"].messages # <<>>
    /\ peer["B"].messages[Len(peer["B"].messages)] = Msg(peer["A"].wire[k], "remote")

Moves(p, from, to) ==
    peer[p].dataChannelState = from /\ peer'[p].dataChannelState = to

\* pc.ondatachannel runs at p: the handle was null and now refers to the
\* channel the other peer created.
InboundChannel(p) ==
    /\ peer[p].dataChannel = "null"
    /\ peer'[p].dataChannel = "announcing"

\* C15: apart from Reset, the side-channel state of a peer only moves
\* closed -> connecting -> open -> closed; the initiator enters connecting
\* when createOffer creates the channel, the responder enters connecting
\* when the inbound-channel event delivers the channel, and open is never
\* entered from closed.
C15_ChannelLifecycle ==
    [][\A p \in Peers :
          /\ (peer'[p].dataChannelState # peer[p].dataChannelState /\ ~UserReset(p))
                => \/ Moves(p, "closed", "connecting")
                   \/ Moves(p, "connecting", "open")
                   \/ Moves(p, "open", "closed")
          /\ UserCreateOffer(p) => peer'[p].dataChannelState = "connecting"
          /\ InboundChannel(p) => peer'[p].dataChannelState = "connecting"]_vars

\* C16: the side-channel handle is non-null only between the creation or the
\* receipt of its channel and the close of that channel: it does not refer
\* to a channel whose close event has fired, and it is null after Reset.
C16_HandleOnlyWhileLive ==
    \A p \in Peers :
        /\ peer[p].dataChannel \in {"null"} \cup LiveChanStates
        /\ peer[p].afterReset # NoReset => peer[p].dataChannel = "null"

(***************************************************************************)
(* Properties of Reset and of the local senders.                           *)
(***************************************************************************)
\* C17: Reset can be invoked in every reachable state, and every Reset runs
\* to its end without raising and leaves a new transport installed.
C17_ResetNeverRaises ==
    /\ [](\A p \in Peers : ENABLED UserReset(p))
    /\ [][\A p \in Peers :
             UserReset(p) => /\ peer'[p].uncaught = peer[p].uncaught
                             /\ peer'[p].pc = NewPc
                             /\ peer'[p].dataChannel = "null"
                             /\ peer'[p].statusText = StatusReady]_vars

\* Reset has just run while a camera acquisition was pending and an
\* invocation of createOffer or createAnswer was suspended on the codec, on
\* a session that held senders or descriptions; nothing was raised and the
\* transport is new.
C17_Witness ==
    /\ peer["A"].afterReset # NoReset
    /\ peer["A"].isCameraStarting
    /\ \E i \in OpIds : peer["A"].ops[i].phase \in {"decode", "encode"}
    /\ peer["A"].uncaught = "none"
    /\ peer["A"].pc = NewPc

\* The senders of a kind that the transport of p holds.
sendersOf(p, kind) == {x \in peer[p].pc.senders : x.kind = kind}

\* C20: the transport holds at most one camera-video sender, one microphone
\* sender and one screen sender, and each sender it holds is the one the
\* corresponding sender reference records.
C20_OneSenderPerKind ==
    \A p \in Peers :
        /\ sendersOf(p, "video") \subseteq {peer[p].localCamSender}
        /\ sendersOf(p, "audio") \subseteq {peer[p].localMicSender}
        /\ sendersOf(p, "screen") \subseteq {peer[p].localScreenSender}
        /\ peer[p].pc.senders
              = sendersOf(p, "video") \cup sendersOf(p, "audio") \cup sendersOf(p, "screen")

\* The transport holds the three senders, those of a camera that was
\* acquired as the second capture stream.
C20_Witness ==
    /\ Cardinality(peer["A"].pc.senders) = 3
    /\ peer["A"].localCamSender = Sender(2, "video")
    /\ peer["A"].localMicSender = Sender(2, "audio")
    /\ peer["A"].localScreenSender = Sender(1, "screen")

(***************************************************************************)
(* Properties of the failure statuses.                                     *)
(***************************************************************************)
\* The status createAnswer ends with when the pasted offer does not decode.
DecodeFailureStatus(s) ==
    createAnswer([s EXCEPT !.offerSdp = JunkText,
                           !.ops = [i \in OpIds |-> IdleOp]]).statusText

\* The transport rejects the call a createAnswer invocation of p is
\* suspended on (setRemoteDescription, createAnswer or setLocalDescription).
AnswerRejected(p) ==
    /\ peer[p].pc.chain # <<>>
    /\ peer[p].ops[Head(peer[p].pc.chain)].kind = "answer"
    /\ TransportSettle(p, FALSE)

\* C18: the status createAnswer shows when the transport rejects the offer
\* or the answer differs from the status it shows when the pasted offer
\* fails to decode.
C18_DistinctFailureStatus ==
    [][\A p \in Peers :
          AnswerRejected(p) => peer'[p].statusText # DecodeFailureStatus(peer[p])]_vars

(***************************************************************************)
(* Properties of candidate ingestion.                                      *)
(***************************************************************************)
\* The elements of a pasted array that are neither null nor empty.
nonNull(items) == SelectSeq(items, LAMBDA x : x \notin {"null", "empty"})

\* The step is an Add Candidates click on a text that parses to something
\* other than an array.
AddsNonArray(p) ==
    /\ ~trimIsEmpty(peer[p].remoteIceCandidates)
    /\ jsonParses(peer[p].remoteIceCandidates)
    /\ ~isArray(peer[p].remoteIceCandidates.body)
    /\ UserAddCandidates(p)

\* C19: an invocation of addRemoteCandidates applies the elements of the
\* pasted array that are neither null nor empty, in the order of the array:
\* what it has applied is always a prefix of them, all of them when it ends
\* with the success status, and each application appends to what the
\* transport was given; a text that parses to something other than an array
\* ends with the not-an-array error status and gives the transport nothing.
C19_IngestInOrder ==
    /\ [](\A p \in Peers :
             /\ \A k \in 1..Len(peer[p].ingests) :
                   isPrefix(peer[p].ingests[k].applied, nonNull(peer[p].ingests[k].items))
             /\ isPrefix(peer[p].ingested.applied, nonNull(peer[p].ingested.items))
             /\ peer[p].ingested.outcome = "added"
                   => peer[p].ingested.applied = nonNull(peer[p].ingested.items))
    /\ [][\A p \in Peers :
             /\ IngestSettle(p) /\ peer'[p].pc.remoteCandidates # peer[p].pc.remoteCandidates
                   => \E k \in 1..Len(peer[p].ingests) :
                         /\ peer'[p].pc.remoteCandidates
                               = Append(peer[p].pc.remoteCandidates,
                                        peer[p].ingests[k].items[peer[p].ingests[k].next])
                         /\ isPrefix(Append(peer[p].ingests[k].applied,
                                            peer[p].ingests[k].items[peer[p].ingests[k].next]),
                                     nonNull(peer[p].ingests[k].items))
             /\ AddsNonArray(p)
                   => /\ peer'[p].statusText = StatusCandidatesNotArray
                      /\ peer'[p].pc = peer[p].pc
                      /\ peer'[p].ingests = peer[p].ingests]_vars

\* An invocation on the array [null, c2, "", c1] has ended with the success
\* status after giving the transport c2 and then c1.
C19_Witness ==
    /\ peer["A"].ingested = Ingested(<<"null", "c2", "empty", "c1">>, <<"c2", "c1">>, "added")
    /\ peer["A"].pc.remoteCandidates = <<"c2", "c1">>
    /\ peer["A"].statusText = StatusCandidatesAdded

(***************************************************************************)
(* Properties of the order of the steps of createAnswer.                   *)
(***************************************************************************)
\* C21: createAnswer clears the candidate buffer only after the pasted offer
\* has been decoded and applied as the remote description.  The run from the
\* click to the first suspension ends at the latest on the await of
\* setRemoteDescription, so it leaves localIceCandidates as it was; so does
\* an invocation that ends with the failure status in decoding.
C21_ClearAfterApply ==
    [][\A p \in Peers :
          UserCreateAnswer(p) /\ ~trimIsEmpty(peer[p].offerSdp)
              => peer'[p].localIceCandidates = peer[p].localIceCandidates]_vars

(***************************************************************************)
(* Properties of Media Control.                                            *)
(***************************************************************************)
\* What stopCamera and stopScreenShare must leave alone of each other.
cameraSide(s) ==
    <<s.localCamStream, s.localCamSender, s.localMicSender, s.micMuted, s.camHidden,
      {x \in s.pc.senders : x.kind \in {"video", "audio"}}>>

screenSide(s) ==
    <<s.localScreenStream, s.localScreenSender, {x \in s.pc.senders : x.kind = "screen"}>>

\* C22: when the capture of the shared screen ends from outside, the session
\* reaches the state a manual stopScreenShare leads to: the local Screen
\* bucket is empty, the track is no longer live, the screen sender is off the
\* transport and its reference is null, and the camera bucket, the camera and
\* microphone senders and the flags are as they were.
C22_EndedConverges ==
    [][\A p \in Peers :
          ScreenEnded(p)
              => /\ peer'[p].localScreenStream = NoStream
                 /\ peer[p].localScreenStream.id \notin peer'[p].liveStreams
                 /\ peer'[p].localScreenSender = NoSender
                 /\ \A x \in peer'[p].pc.senders : x.kind # "screen"
                 /\ cameraSide(peer'[p]) = cameraSide(peer[p])
                 /\ [peer'[p] EXCEPT !.justEnded = FALSE]
                       = [compactOps(stopScreenShare(peer[p])) EXCEPT
                             !.afterReset = NoReset, !.justEnded = FALSE]]_vars

\* The capture of a shared screen whose sender was on the transport has just
\* ended from outside while the camera is held, muted, with its two senders
\* on the transport.
C22_Witness ==
    /\ peer["A"].justEnded
    /\ peer["A"].localScreenStream = NoStream
    /\ peer["A"].localScreenSender = NoSender
    /\ peer["A"].localCamStream # NoStream
    /\ peer["A"].micMuted
    /\ Cardinality(peer["A"].pc.senders) = 2
    /\ peer["A"].statusText = StatusScreenStopped

\* The state stopCamera leaves of the camera: no camera stream and no live
\* track of the stream that was held, no camera or microphone sender on the
\* transport or in the references, both flags false.
cameraOff(s, t) ==
    /\ t.localCamStream = NoStream
    /\ s.localCamStream.id \notin t.liveStreams
    /\ t.localCamSender = NoSender
    /\ t.localMicSender = NoSender
    /\ \A x \in t.pc.senders : x.kind \notin {"video", "audio"}
    /\ ~t.micMuted
    /\ ~t.camHidden

\* C23: every live local track belongs to a stream the session holds, and
\* stopCamera, clicked or run by Reset, stops the tracks of the camera
\* stream, empties the local Camera bucket, takes the camera and microphone
\* senders off the transport and nulls their references and sets the mute and
\* hide flags to false; the click on Stop Camera leaves the local Screen
\* bucket, its track and the screen sender as they were.
C23_StopCamera ==
    /\ [](\A p \in Peers :
             peer[p].liveStreams
                 \subseteq ({peer[p].localCamStream.id, peer[p].localScreenStream.id} \ {0}))
    /\ [][\A p \in Peers :
             /\ UserStopCamera(p)
                   => /\ cameraOff(peer[p], peer'[p])
                      /\ screenSide(peer'[p]) = screenSide(peer[p])
                      /\ peer'[p].liveStreams = peer[p].liveStreams \ {peer[p].localCamStream.id}
                      /\ peer'[p].uncaught = peer[p].uncaught
             /\ UserReset(p) => cameraOff(peer[p], peer'[p])]_vars

\* Stop Camera was the last handler to set the status, and the screen is
\* still shared with its sender, the only one, on the transport.
C23_Witness ==
    /\ peer["A"].statusText = StatusCameraStopped
    /\ peer["A"].localCamStream = NoStream
    /\ peer["A"].localScreenStream # NoStream
    /\ peer["A"].localScreenStream.id \in peer["A"].liveStreams
    /\ peer["A"].pc.senders = {peer["A"].localScreenSender}
    /\ peer["A"].localScreenSender # NoSender

\* The session as a handler invoked by a click leaves it.
afterStep(s) == [compactOps(s) EXCEPT !.afterReset = NoReset, !.justEnded = FALSE]

\* C24: a click on Mute / Unmute inverts the enabled flag of the audio tracks
\* of the camera stream and the mute flag, a click on Hide / Show Video the
\* enabled flag of its video tracks and the hide flag, and neither changes
\* anything else: the transport with its senders and descriptions, the
\* candidate buffer and the tracks of every bucket stay as they were.  On a
\* session without camera stream both handlers change nothing.
C24_ToggleFrame ==
    /\ [](\A p \in Peers :
             peer[p].localCamStream = NoStream
                 => toggleMic(peer[p]) = peer[p] /\ toggleVideo(peer[p]) = peer[p])
    /\ [][\A p \in Peers :
             /\ UserToggleMic(p)
                   => /\ peer'[p].micMuted = ~peer[p].micMuted
                      /\ peer'[p].localCamStream.audioEnabled = ~peer[p].localCamStream.audioEnabled
                      /\ peer'[p] = afterStep([peer[p] EXCEPT
                                        !.micMuted = ~@,
                                        !.localCamStream.audioEnabled = ~@])
             /\ UserToggleVideo(p)
                   => /\ peer'[p].camHidden = ~peer[p].camHidden
                      /\ peer'[p].localCamStream.videoEnabled = ~peer[p].localCamStream.videoEnabled
                      /\ peer'[p] = afterStep([peer[p] EXCEPT
                                        !.camHidden = ~@,
                                        !.localCamStream.videoEnabled = ~@])
             /\ UserToggleMic(p) \/ UserToggleVideo(p)
                   => /\ peer'[p].pc = peer[p].pc
                      /\ peer'[p].localIceCandidates = peer[p].localIceCandidates
                      /\ peer'[p].localCamStream.id = peer[p].localCamStream.id
                      /\ peer'[p].localScreenStream = peer[p].localScreenStream
                      /\ peer'[p].remoteCamStream = peer[p].remoteCamStream
                      /\ peer'[p].remoteScreenStream = peer[p].remoteScreenStream]_vars

\* The camera is muted and not hidden on a session whose transport holds the
\* three senders and a local offer and has emitted a candidate.
C24_Witness ==
    /\ peer["A"].localCamStream # NoStream
    /\ peer["A"].micMuted
    /\ ~peer["A"].localCamStream.audioEnabled
    /\ ~peer["A"].camHidden
    /\ Cardinality(peer["A"].pc.senders) = 3
    /\ localDescription(peer["A"].pc) # NoDesc
    /\ peer["A"].localIceCandidates # <<>>

Resumes(p) ==
    \/ EncodeResolve(p)
    \/ DecodeResolve(p)
    \/ CameraResolve(p)
    \/ ScreenResolve(p)
    \/ \E ok \in BOOLEAN : TransportSettle(p, ok)
    \/ TransportGatheringComplete(p)

\* C25: an invocation that was suspended when Reset ran and resumes
\* afterwards writes nothing into what Reset cleared.  In the state Reset
\* leaves, every suspended invocation was made before the Reset, so the step
\* that resumes one leaves the offer and answer payloads and the two local
\* buckets empty.
C25_ResetAbandonsInFlight ==
    [][\A p \in Peers :
          peer[p].afterReset # NoReset /\ Resumes(p)
              => /\ peer'[p].offerSdp = EmptyText
                 /\ peer'[p].answerSdp = EmptyText
                 /\ peer'[p].localCamStream = NoStream
                 /\ peer'[p].localScreenStream = NoStream]_vars

(***************************************************************************)
(* Properties of the side channel state and the channel handle.            *)
(***************************************************************************)
\* The step is the open or the close event of a channel that
\* dataChannel.current no longer refers to.
ReplacedChannelEvent(p) ==
    \/ \E c \in {"connecting", "announcing"} :
           /\ chanExists(peer[p], c)
           /\ Step(p, "onopen", chanOpen(peer[p], c))
    \/ \E c \in {"closing", "open"} : ChanCloseOf(p, c)

\* C26: while dataChannelState is open the channel dataChannel.current refers
\* to has readyState open; the open and close events of a channel that was
\* replaced leave dataChannelState as it is; and no send throws.
C26_StateFollowsCurrentChannel ==
    /\ [](\A p \in Peers : peer[p].dataChannelState = "open" => chanIsOpen(peer[p]))
    /\ [][\A p \in Peers :
             /\ ReplacedChannelEvent(p)
                   => peer'[p].dataChannelState = peer[p].dataChannelState
             /\ UserSend(p) => peer'[p].uncaught = peer[p].uncaught]_vars

(***************************************************************************)
(* Properties of the remote buckets.                                       *)
(***************************************************************************)
\* C27: no track is in the remote camera bucket and in the remote screen
\* bucket at the same time.
C27_RemoteBucketsDisjoint ==
    \A p \in Peers :
        \A j \in DOMAIN peer[p].remoteCamStream :
            ~hasTrack(peer[p].remoteScreenStream, peer[p].remoteCamStream[j].id)

====
